---------------------------- MODULE Spec2Model ----------------------------
(***************************************************************************)
(* Record tracker: SQLite storage (server.py SCHEMA), the repository       *)
(* functions of server.py, and the Flask handlers in front of them.        *)
(*                                                                         *)
(* Python / JSON / SQL values are tagged records with the same three       *)
(* fields, so that any two of them can be compared:                        *)
(*   None / null / NULL      [tag |-> "null"]                              *)
(*   a number                [tag |-> "num", num |-> n]                    *)
(*   a string                [tag |-> "str", str |-> <<"a", "b", ...>>]    *)
(*   float('nan')            [tag |-> "nan"]                               *)
(* A string is the sequence of its characters.  Prices are whole numbers   *)
(* of the smallest currency unit (-1 stands for -0.01).                    *)
(***************************************************************************)
EXTENDS Integers, Sequences, FiniteSets, TLC

None    == [tag |-> "null", num |-> 0, str |-> <<>>]
Num(n)  == [tag |-> "num",  num |-> n, str |-> <<>>]
Str(s)  == [tag |-> "str",  num |-> 0, str |-> s]
NaN     == [tag |-> "nan",  num |-> 0, str |-> <<>>]
\* The marker of a raised ValueError / TypeError inside a conversion.
Raised  == [tag |-> "raise", num |-> 0, str |-> <<>>]

IsNone(v) == v.tag = "null"
IsNum(v)  == v.tag = "num"
IsStr(v)  == v.tag = "str"

\* Python truthiness: `if v:` / `not v` / `v or ""`.
Truthy(v) ==
    CASE v.tag = "null" -> FALSE
      [] v.tag = "num"  -> v.num # 0
      [] v.tag = "str"  -> v.str # <<>>
      [] OTHER          -> TRUE

\* ------------------------------------------------------------ characters
\* A character is a one-character string; Ord gives its code point, which is
\* what SQLite's BINARY collation and Python compare strings by.
Digits == <<"0", "1", "2", "3", "4", "5", "6", "7", "8", "9">>

IsDigit(c) == \E i \in 1..10 : Digits[i] = c
DigitVal(c) == (CHOOSE i \in 1..10 : Digits[i] = c) - 1

Ord(c) ==
    CASE c = " " -> 32
      [] c = "+" -> 43
      [] c = "-" -> 45
      [] c = "/" -> 47
      [] IsDigit(c) -> 48 + DigitVal(c)
      [] c = "a" -> 97
      [] c = "b" -> 98
      [] c = "g" -> 103
      [] c = "m" -> 109
      [] c = "n" -> 110
      [] c = "x" -> 120
      [] OTHER   -> 127

IsSpace(c) == c \in {" ", "\t", "\n", "\r"}

RECURSIVE lstrip(_)
lstrip(s) == IF s # <<>> /\ IsSpace(Head(s)) THEN lstrip(Tail(s)) ELSE s

RECURSIVE rstrip(_)
rstrip(s) ==
    IF s # <<>> /\ IsSpace(s[Len(s)]) THEN rstrip(SubSeq(s, 1, Len(s) - 1)) ELSE s

\* str.strip()
strip(s) == rstrip(lstrip(s))

\* Value of a sequence of digits.
RECURSIVE digits_value(_)
digits_value(s) ==
    IF s = <<>> THEN 0
    ELSE 10 * digits_value(SubSeq(s, 1, Len(s) - 1)) + DigitVal(s[Len(s)])

AllDigits(s) == s # <<>> /\ \A i \in 1..Len(s) : IsDigit(s[i])

\* The decimal integer literal Python's int() and float() accept in a string:
\* surrounding whitespace, an optional sign, digits.
signed_digits(s) ==
    LET t    == strip(s)
        neg  == t # <<>> /\ Head(t) = "-"
        body == IF t # <<>> /\ Head(t) \in {"-", "+"} THEN Tail(t) ELSE t
    IN  IF AllDigits(body)
        THEN Num(IF neg THEN 0 - digits_value(body) ELSE digits_value(body))
        ELSE Raised

\* int(val): TypeError for None, ValueError for a string that is no integer
\* literal (and for nan).
py_int(val) ==
    CASE val.tag = "null" -> Raised
      [] val.tag = "num"  -> val
      [] val.tag = "str"  -> signed_digits(val.str)
      [] OTHER            -> Raised

\* float(val): as int(), and the string 'nan' (any sign) is float('nan').
py_float(val) ==
    CASE val.tag = "null" -> Raised
      [] val.tag = "num"  -> val
      [] val.tag = "nan"  -> NaN
      [] val.tag = "str"  ->
            LET t    == strip(val.str)
                body == IF t # <<>> /\ Head(t) \in {"-", "+"} THEN Tail(t) ELSE t
            IN  IF body = <<"n", "a", "n">> THEN NaN ELSE signed_digits(val.str)
      [] OTHER            -> Raised

\* parse_int with the upper bound left unchecked.
parse_int_no_max(val, min_val, max_val) ==
    IF IsNone(val) THEN None
    ELSE LET i == py_int(val)
         IN  IF i = Raised THEN None
             ELSE IF ~IsNone(min_val) /\ i.num < min_val.num THEN None
             ELSE i

\* server.py parse_int
parse_int(val, min_val, max_val) ==
    IF IsNone(val) THEN None
    ELSE LET i == py_int(val)
         IN  IF i = Raised THEN None
             ELSE IF ~IsNone(min_val) /\ i.num < min_val.num THEN None
             ELSE IF ~IsNone(max_val) /\ i.num > max_val.num THEN None
             ELSE i

\* server.py parse_float.  Every comparison with nan is False, so nan passes
\* both bound checks.
parse_float(val, min_val, max_val) ==
    IF IsNone(val) THEN None
    ELSE LET f == py_float(val)
         IN  IF f = Raised THEN None
             ELSE IF f = NaN THEN NaN
             ELSE IF ~IsNone(min_val) /\ f.num < min_val.num THEN None
             ELSE IF ~IsNone(max_val) /\ f.num > max_val.num THEN None
             ELSE f

max_len == 255

\* server.py sanitize_text
sanitize_text(val) ==
    LET s == strip(IF Truthy(val) THEN val.str ELSE <<>>)
    IN  IF s = <<>> THEN None
        ELSE Str(SubSeq(s, 1, IF Len(s) < max_len THEN Len(s) ELSE max_len))

\* ------------------------------------------------------------------ dates
\* Lexicographic order of two strings by code point (SQLite TEXT comparison).
RECURSIVE str_le(_, _)
str_le(a, b) ==
    IF a = <<>> THEN TRUE
    ELSE IF b = <<>> THEN FALSE
    ELSE IF Ord(Head(a)) < Ord(Head(b)) THEN TRUE
    ELSE IF Ord(Head(a)) > Ord(Head(b)) THEN FALSE
    ELSE str_le(Tail(a), Tail(b))

NonZeroDigit(c) == IsDigit(c) /\ c # "0"

\* Number of characters the %m directive consumes at the head of t (0: no
\* match).  Its pattern is 1[0-2]|0[1-9]|[1-9], tried in this order.
month_width(t) ==
    IF Len(t) >= 2 /\ t[1] = "1" /\ t[2] \in {"0", "1", "2"} THEN 2
    ELSE IF Len(t) >= 2 /\ t[1] = "0" /\ NonZeroDigit(t[2]) THEN 2
    ELSE IF Len(t) >= 1 /\ NonZeroDigit(t[1]) THEN 1
    ELSE 0

\* The same for %d, whose pattern is 3[01]|[12]\d|0[1-9]|[1-9]| [1-9].
day_width(t) ==
    IF Len(t) >= 2 /\ t[1] = "3" /\ t[2] \in {"0", "1"} THEN 2
    ELSE IF Len(t) >= 2 /\ t[1] \in {"1", "2"} /\ IsDigit(t[2]) THEN 2
    ELSE IF Len(t) >= 2 /\ t[1] = "0" /\ NonZeroDigit(t[2]) THEN 2
    ELSE IF Len(t) >= 1 /\ NonZeroDigit(t[1]) THEN 1
    ELSE IF Len(t) >= 2 /\ t[1] = " " /\ NonZeroDigit(t[2]) THEN 2
    ELSE 0

days_in_month(y, m) ==
    IF m \in {4, 6, 9, 11} THEN 30
    ELSE IF m # 2 THEN 31
    ELSE IF (y % 4 = 0 /\ y % 100 # 0) \/ y % 400 = 0 THEN 29
    ELSE 28

\* datetime.strptime(s, "%Y-%m-%d") returns (does not raise ValueError): the
\* pattern matches a prefix of s, nothing of s is left over, and the fields
\* make a date.
strptime_ok(s) ==
    /\ Len(s) >= 5
    /\ AllDigits(SubSeq(s, 1, 4))
    /\ s[5] = "-"
    /\ LET t  == SubSeq(s, 6, Len(s))
           mw == month_width(t)
       IN  /\ mw > 0
           /\ Len(t) > mw
           /\ t[mw + 1] = "-"
           /\ LET u  == SubSeq(t, mw + 2, Len(t))
                  dw == day_width(u)
                  y  == digits_value(SubSeq(s, 1, 4))
                  m  == digits_value(SubSeq(t, 1, mw))
                  d  == digits_value(strip(SubSeq(u, 1, dw)))
              IN  /\ dw > 0
                  /\ dw = Len(u)
                  /\ y >= 1
                  /\ d <= days_in_month(y, m)

\* server.py parse_date_yyyy_mm_dd
parse_date_yyyy_mm_dd(val) ==
    IF ~Truthy(val) THEN None
    ELSE IF strptime_ok(val.str) THEN val
    ELSE None

\* ---------------------------------------------------------------- storage
VARIABLES
    tables,           \* names of the tables in records.db (sqlite_master)
    Artists,          \* rows [artist_id, name, country]
    Genres,           \* rows [genre_id, name]
    Stores,           \* rows [store_id, name, state, address]
    Records,          \* rows [record_id, title, artist_id, genre_id, year,
                      \*       condition, price, purchase_date]
    recordStores,     \* rows [record_id, store_id]
    sqlite_sequence,  \* per AUTOINCREMENT table, the largest id ever given
    resp,             \* the last call: the function or handler, the id in
                      \* its path, the HTTP status, the id returned and the
                      \* exception raised to a direct caller
    inflight          \* per worker thread of the facade, the request it is
                      \* serving: the handler, the statement it has come to
                      \* and the values it holds

vars == <<tables, Artists, Genres, Stores, Records, recordStores,
          sqlite_sequence, resp, inflight>>

\* The tables the statements of SCHEMA create.
SCHEMA == {"Artists", "Genres", "Records", "Stores"}

\* The database as one value, as a connection sees it.
DB ==
    [tables |-> tables, Artists |-> Artists, Genres |-> Genres,
     Stores |-> Stores, Records |-> Records, recordStores |-> recordStores,
     sqlite_sequence |-> sqlite_sequence]

\* The result of a repository call: the database it leaves, the value it
\* returns and the exception it raises ("" for none).  A call that raises
\* before conn.commit() leaves the database as it found it: the connection
\* is dropped and its open transaction rolled back.
Return(d, v)  == [db |-> d, ret |-> v, exc |-> ""]
Raise(d, e)   == [db |-> d, ret |-> None, exc |-> e]

\* dict.get(key) of a dict held as a function from its keys.
Get(data, k) == IF k \in DOMAIN data THEN data[k] ELSE None

\* cur.lastrowid of an INSERT into a table whose key is INTEGER PRIMARY KEY
\* without AUTOINCREMENT: one more than the largest id the table holds.
lastrowid_of_rows(d, t) ==
    LET ids == IF t = "Artists" THEN {x.artist_id : x \in d.Artists}
               ELSE IF t = "Genres" THEN {x.genre_id : x \in d.Genres}
               ELSE IF t = "Stores" THEN {x.store_id : x \in d.Stores}
               ELSE {x.record_id : x \in d.Records}
    IN  IF ids = {} THEN 1 ELSE (CHOOSE i \in ids : \A j \in ids : j <= i) + 1

\* cur.lastrowid of an INSERT into an AUTOINCREMENT table.
lastrowid(d, t) == d.sqlite_sequence[t] + 1

\* server.py init_db
init_db(d) == [d EXCEPT !.tables = d.tables \cup SCHEMA]

\* fetchone() of a SELECT of an id column: the row the scan meets first, the
\* one with the smallest rowid, or None.
fetchone(ids) == IF ids = {} THEN None ELSE Num(CHOOSE i \in ids : \A j \in ids : i <= j)

\* server.py find_or_create_artist
find_or_create_artist(d, name_arg, country) ==
    LET name == strip(IF Truthy(name_arg) THEN name_arg.str ELSE <<>>)
        r    == fetchone({a.artist_id : a \in {x \in d.Artists : x.name = Str(name)}})
        id   == lastrowid(d, "Artists")
    IN  IF name = <<>> THEN Return(d, None)
        ELSE IF ~IsNone(r) THEN Return(d, r)
        ELSE Return([d EXCEPT
                        !.Artists = @ \cup {[artist_id |-> id, name |-> Str(name),
                                             country |-> country]},
                        !.sqlite_sequence["Artists"] = id],
                    Num(id))

\* server.py find_or_create_genre
find_or_create_genre(d, name_arg) ==
    IF ~IsStr(name_arg) THEN Raise(d, "AttributeError")
    ELSE
    LET name == strip(name_arg.str)
        r    == fetchone({g.genre_id : g \in {x \in d.Genres : x.name = Str(name)}})
        id   == lastrowid(d, "Genres")
    IN  IF name = <<>> THEN Return(d, None)
        ELSE IF ~IsNone(r) THEN Return(d, r)
        ELSE Return([d EXCEPT
                        !.Genres = @ \cup {[genre_id |-> id, name |-> Str(name)]},
                        !.sqlite_sequence["Genres"] = id],
                    Num(id))

\* find_or_create_store matching on the address even when none is given:
\* address = NULL is true of no row.
find_or_create_store_by_address(d, name_arg, state, address) ==
    LET name  == strip(IF Truthy(name_arg) THEN name_arg.str ELSE <<>>)
        match == {x \in d.Stores : /\ x.name = Str(name)
                                   /\ Truthy(address) /\ x.address = address}
        r     == fetchone({x.store_id : x \in match})
        id    == d.sqlite_sequence["Stores"] + 1
    IN  IF name = <<>> THEN [db |-> d, ret |-> None, exc |-> ""]
        ELSE IF ~IsNone(r) THEN [db |-> d, ret |-> r, exc |-> ""]
        ELSE [db  |-> [d EXCEPT
                          !.Stores = @ \cup {[store_id |-> id, name |-> Str(name),
                                              state |-> state, address |-> address]},
                          !.sqlite_sequence["Stores"] = id],
              ret |-> Num(id), exc |-> ""]

\* server.py find_or_create_store
find_or_create_store(d, name_arg, state, address) ==
    LET name  == strip(IF Truthy(name_arg) THEN name_arg.str ELSE <<>>)
        match == IF Truthy(address)
                 THEN {x \in d.Stores : x.name = Str(name) /\ x.address = address}
                 ELSE {x \in d.Stores : x.name = Str(name)}
        r     == fetchone({x.store_id : x \in match})
        id    == lastrowid(d, "Stores")
    IN  IF name = <<>> THEN Return(d, None)
        ELSE IF ~IsNone(r) THEN Return(d, r)
        ELSE Return([d EXCEPT
                        !.Stores = @ \cup {[store_id |-> id, name |-> Str(name),
                                            state |-> state, address |-> address]},
                        !.sqlite_sequence["Stores"] = id],
                    Num(id))

\* The "defensive validation at DB layer" of add_record_db and
\* update_record_db: the message of the ValueError it raises, "" when it
\* passes.  isinstance(y, int) holds of a number, not of a string or nan;
\* isinstance(p, (int, float)) holds of a number and of nan, and nan < 0 is
\* False.
db_validation(data) ==
    LET y == Get(data, "year")
        p == Get(data, "price")
    IN  IF IsNone(Get(data, "title")) THEN "title required"
        ELSE IF IsNone(y) \/ ~IsNum(y) \/ y.num < 1800 \/ y.num > 2100
             THEN "year must be a valid number between 1800 and 2100"
        ELSE IF IsNone(p) \/ ~(IsNum(p) \/ p = NaN) \/ (IsNum(p) /\ p.num < 0)
             THEN "price must be a valid non-negative number"
        ELSE ""

\* What SQLite stores for a bound parameter: a nan becomes NULL.
bind(v) == IF v = NaN THEN None ELSE v

\* The row an INSERT or UPDATE of Records writes for `data`.
record_row(record_id, data) ==
    [record_id     |-> record_id,
     title         |-> bind(data["title"]),
     artist_id     |-> bind(Get(data, "artist_id")),
     genre_id      |-> bind(Get(data, "genre_id")),
     year          |-> bind(Get(data, "year")),
     condition     |-> bind(Get(data, "condition")),
     price         |-> bind(Get(data, "price")),
     purchase_date |-> bind(Get(data, "purchase_date"))]

\* server.py add_record_db
add_record_db(d, data) ==
    LET record_id == lastrowid(d, "Records")
        store_id  == Get(data, "store_id")
        inserted  == [d EXCEPT !.Records = @ \cup {record_row(record_id, data)},
                               !.sqlite_sequence["Records"] = record_id]
    IN  IF db_validation(data) # "" THEN Raise(d, "ValueError")
        ELSE IF ~Truthy(store_id) THEN Return(inserted, Num(record_id))
        ELSE IF "recordStores" \notin d.tables THEN Raise(d, "OperationalError")
        ELSE Return([inserted EXCEPT !.recordStores =
                        @ \cup {[record_id |-> record_id, store_id |-> store_id.num]}],
                    Num(record_id))

\* server.py update_record_db
update_record_db(d, record_id, data) ==
    LET store_id == Get(data, "store_id")
        updated  == [d EXCEPT !.Records =
                        {IF r.record_id = record_id THEN record_row(record_id, data) ELSE r
                            : r \in @}]
        unlinked == [updated EXCEPT !.recordStores =
                        {l \in @ : l.record_id # record_id}]
    IN  IF db_validation(data) # "" THEN Raise(d, "ValueError")
        ELSE IF "store_id" \notin DOMAIN data THEN Return(updated, None)
        ELSE IF "recordStores" \notin d.tables THEN Raise(d, "OperationalError")
        ELSE IF ~Truthy(store_id) THEN Return(unlinked, None)
        ELSE Return([unlinked EXCEPT !.recordStores =
                        @ \cup {[record_id |-> record_id, store_id |-> store_id.num]}],
                    None)

\* delete_record_db counting the artist's records before the DELETE: the
\* record being deleted is counted too.
delete_record_db_count_first(d, record_id) ==
    LET row       == {r \in d.Records : r.record_id = record_id}
        artist_id == IF row = {} THEN None ELSE (CHOOSE r \in row : TRUE).artist_id
        deleted   == [d EXCEPT !.recordStores = {l \in @ : l.record_id # record_id},
                               !.Records = @ \ row]
        cnt       == Cardinality({r \in d.Records : r.artist_id = artist_id})
    IN  IF "recordStores" \notin d.tables THEN Raise(d, "OperationalError")
        ELSE IF Truthy(artist_id) /\ cnt = 0
             THEN Return([deleted EXCEPT !.Artists =
                            {a \in @ : a.artist_id # artist_id.num}], None)
        ELSE Return(deleted, None)

\* server.py delete_record_db
delete_record_db(d, record_id) ==
    LET row       == {r \in d.Records : r.record_id = record_id}
        artist_id == IF row = {} THEN None ELSE (CHOOSE r \in row : TRUE).artist_id
        deleted   == [d EXCEPT !.recordStores = {l \in @ : l.record_id # record_id},
                               !.Records = @ \ row]
        cnt       == Cardinality({r \in deleted.Records : r.artist_id = artist_id})
    IN  IF "recordStores" \notin d.tables THEN Raise(d, "OperationalError")
        ELSE IF Truthy(artist_id) /\ cnt = 0
             THEN Return([deleted EXCEPT !.Artists =
                            {a \in @ : a.artist_id # artist_id.num}], None)
        ELSE Return(deleted, None)

\* ---------------------------------------------------------------- queries
\* LEFT JOIN Artists / Genres / Stores: the name of the row with this id,
\* NULL when the id is NULL or names no row.
artist_name_of(d, id) ==
    LET m == {a \in d.Artists : Num(a.artist_id) = id}
    IN  IF m = {} THEN None ELSE (CHOOSE a \in m : TRUE).name

genre_name_of(d, id) ==
    LET m == {g \in d.Genres : Num(g.genre_id) = id}
    IN  IF m = {} THEN None ELSE (CHOOSE g \in m : TRUE).name

store_name_of(d, id) ==
    LET m == {x \in d.Stores : Num(x.store_id) = id}
    IN  IF m = {} THEN None ELSE (CHOOSE x \in m : TRUE).name

\* The ids of a set, largest first (ORDER BY ... DESC).
RECURSIVE desc(_)
desc(ids) ==
    IF ids = {} THEN <<>>
    ELSE LET m == CHOOSE i \in ids : \A j \in ids : j <= i
         IN  <<m>> \o desc(ids \ {m})

\* GROUP_CONCAT(S.name, ', ') over the store ids of one record, taken in id
\* order: NULL names are skipped, and no name at all gives NULL.
RECURSIVE group_concat(_, _)
group_concat(d, sids) ==
    IF sids = {} THEN None
    ELSE LET m    == CHOOSE i \in sids : \A j \in sids : j <= i
             rest == group_concat(d, sids \ {m})
             name == store_name_of(d, Num(m))
         IN  IF IsNone(name) THEN rest
             ELSE IF IsNone(rest) THEN name
             ELSE Str(rest.str \o <<",", " ">> \o name.str)

\* One row of the joined record view.
record_view(d, r, store) ==
    [record_id     |-> r.record_id,
     title         |-> r.title,
     artist        |-> artist_name_of(d, r.artist_id),
     genre         |-> genre_name_of(d, r.genre_id),
     store         |-> store,
     year          |-> r.year,
     condition     |-> r.condition,
     price         |-> r.price,
     purchase_date |-> r.purchase_date]

\* fetch_all_records_db without GROUP BY R.record_id: one row per link of a
\* record, each with the name of one store.
fetch_all_records_db_no_group_by(d) ==
    LET by_id(i) == CHOOSE r \in d.Records : r.record_id = i
        links(i) == desc({l.store_id : l \in {x \in d.recordStores : x.record_id = i}})
        order    == desc({r.record_id : r \in d.Records})
        row(i)   == IF links(i) = <<>> \/ "recordStores" \notin d.tables
                    THEN <<record_view(d, by_id(i), None)>>
                    ELSE [k \in 1..Len(links(i)) |->
                             record_view(d, by_id(i), store_name_of(d, Num(links(i)[k])))]
        all[n \in 0..Len(order)] ==
            IF n = 0 THEN <<>> ELSE all[n - 1] \o row(order[n])
    IN  all[Len(order)]

\* server.py fetch_all_records_db, on the schema SCHEMA creates: the columns
\* record_id, artist_id and genre_id exist, so every join is by id.
fetch_all_records_db(d) ==
    LET has_recordstores == "recordStores" \in d.tables
        has_stores       == "Stores" \in d.tables
        by_id(i)         == CHOOSE r \in d.Records : r.record_id = i
        store(i)         ==
            IF has_recordstores /\ has_stores
            THEN group_concat(d, {l.store_id : l \in {x \in d.recordStores : x.record_id = i}})
            ELSE None
        order            == desc({r.record_id : r \in d.Records})
    IN  [k \in 1..Len(order) |-> record_view(d, by_id(order[k]), store(order[k]))]

\* The filters of a report as api_report_records parses them.
report_filters(payload) ==
    [start_date |-> parse_date_yyyy_mm_dd(Get(payload, "start_date")),
     end_date   |-> parse_date_yyyy_mm_dd(Get(payload, "end_date")),
     artist_id  |-> parse_int(Get(payload, "artist_id"), Num(1), None),
     store_id   |-> parse_int(Get(payload, "store_id"), Num(1), None),
     genre_id   |-> parse_int(Get(payload, "genre_id"), Num(1), None)]

\* where_sql with the genre condition left out.
where_records_no_genre(f, r) ==
    /\ Truthy(f.start_date) =>
          IsStr(r.purchase_date) /\ str_le(f.start_date.str, r.purchase_date.str)
    /\ Truthy(f.end_date) =>
          IsStr(r.purchase_date) /\ str_le(r.purchase_date.str, f.end_date.str)
    /\ Truthy(f.artist_id) => r.artist_id = f.artist_id

\* The conditions of where_sql on the columns of Records.  A comparison with
\* NULL is not true.
where_records(f, r) ==
    /\ Truthy(f.start_date) =>
          IsStr(r.purchase_date) /\ str_le(f.start_date.str, r.purchase_date.str)
    /\ Truthy(f.end_date) =>
          IsStr(r.purchase_date) /\ str_le(r.purchase_date.str, f.end_date.str)
    /\ Truthy(f.artist_id) => r.artist_id = f.artist_id
    /\ Truthy(f.genre_id) => r.genre_id = f.genre_id

\* Records R LEFT JOIN recordStores RS ON R.record_id = RS.record_id: one row
\* per link of the record, and one with RS NULL when it has none.
join_recordStores(d) ==
    UNION {LET links == {l \in d.recordStores : l.record_id = r.record_id}
           IN  IF links = {} THEN {[r |-> r, store_id |-> None]}
               ELSE {[r |-> r, store_id |-> Num(l.store_id)] : l \in links}
           : r \in d.Records}

\* Joined rows by record_id, largest first; rows of one record by store id
\* (SQL leaves their order open).
RECURSIVE order_by_record_id_desc(_)
order_by_record_id_desc(rows) ==
    IF rows = {} THEN <<>>
    ELSE LET m == CHOOSE x \in rows : \A y \in rows :
                     \/ y.r.record_id < x.r.record_id
                     \/ y.r.record_id = x.r.record_id /\ x.store_id.num <= y.store_id.num
         IN  <<m>> \o order_by_record_id_desc(rows \ {m})

\* The Artists row the group query joins to record r: its id, or NULL when
\* the record has no artist or names one that has no row.
artist_key(d, r) ==
    IF \E a \in d.Artists : Num(a.artist_id) = r.artist_id THEN r.artist_id ELSE None

\* GROUP BY A.artist_id, A.name with COUNT(*) over the joined rows xs.
group_by_artist(d, xs) ==
    {[artist_id |-> k,
      name      |-> artist_name_of(d, k),
      count     |-> Cardinality({x \in xs : artist_key(d, x.r) = k})]
        : k \in {artist_key(d, x.r) : x \in xs}}

\* ORDER BY COUNT(*) DESC; groups of one count with the NULL artist first,
\* then by id (SQL leaves their order open).
RECURSIVE order_by_count_desc(_)
order_by_count_desc(groups) ==
    IF groups = {} THEN <<>>
    ELSE LET m == CHOOSE g \in groups : \A h \in groups :
                     \/ h.count < g.count
                     \/ h.count = g.count /\ g.artist_id.num <= h.artist_id.num
         IN  <<m>> \o order_by_count_desc(groups \ {m})

\* server.py api_report_records: the three queries.  With a store filter and
\* no link table (or no Stores table) the first statement has RS.store_id in
\* its WHERE and no RS in its FROM: OperationalError, a 500.
api_report_records(d, payload) ==
    LET f                == report_filters(payload)
        join_store       == Truthy(f.store_id)
        has_recordstores == "recordStores" \in d.tables
        has_stores       == "Stores" \in d.tables
        where_joined(x)  == where_records(f, x.r)
                            /\ (join_store => x.store_id = f.store_id)
        joined           == {x \in join_recordStores(d) : where_joined(x)}
        plain            == {[r |-> r, store_id |-> None] :
                                r \in {x \in d.Records : where_records(f, x)}}
        sorted           == order_by_record_id_desc(
                                IF has_recordstores /\ has_stores THEN joined ELSE plain)
        rows             == [k \in 1..Len(sorted) |->
                                record_view(d, sorted[k].r,
                                            store_name_of(d, sorted[k].store_id))]
        count            == IF join_store THEN Cardinality(joined)
                            ELSE Cardinality(plain)
        by_artist        == IF count > 0
                            THEN order_by_count_desc(
                                    group_by_artist(d, IF join_store THEN joined ELSE plain))
                            ELSE <<>>
    IN  IF join_store /\ ~(has_recordstores /\ has_stores)
        THEN [status |-> 500, rows |-> <<>>, stats |-> [count |-> 0],
              by_artist |-> <<>>]
        ELSE [status |-> 200, rows |-> rows, stats |-> [count |-> count],
              by_artist |-> by_artist]

\* --------------------------------------------------------------- handlers
\* What a Flask handler leaves: the database, the HTTP status and the id its
\* JSON body carries (None when it carries none).  An exception that leaves
\* the handler is a 500.
Reply(d, status, json) == [db |-> d, status |-> status, json |-> json]

\* The part api_add_record and api_update_record share, up to the dict they
\* hand to the repository: rejected is TRUE for a 400, db is the database
\* after the find-or-create calls made before the rejection.
record_request(d, payload) ==
    LET title       == sanitize_text(Get(payload, "title"))
        artist_name == sanitize_text(Get(payload, "artist_name"))
        genre_name  == sanitize_text(Get(payload, "genre"))
        a           == IF Truthy(artist_name)
                       THEN find_or_create_artist(d, artist_name, None)
                       ELSE Return(d, None)
        g           == IF Truthy(genre_name)
                       THEN find_or_create_genre(a.db, genre_name)
                       ELSE Return(a.db, None)
        year        == parse_int(Get(payload, "year"), Num(1800), Num(2100))
        price       == parse_float(Get(payload, "price"), Num(0), None)
    IN  IF ~Truthy(title) THEN [rejected |-> TRUE, db |-> d, data |-> <<>>]
        ELSE IF IsNone(year) \/ IsNone(price)
             THEN [rejected |-> TRUE, db |-> g.db, data |-> <<>>]
        ELSE [rejected |-> FALSE, db |-> g.db, data |->
                [title         |-> title,
                 artist_id     |-> a.ret,
                 genre_id      |-> g.ret,
                 year          |-> year,
                 condition     |-> sanitize_text(Get(payload, "condition")),
                 price         |-> price,
                 purchase_date |-> parse_date_yyyy_mm_dd(Get(payload, "purchase_date")),
                 store_id      |-> parse_int(Get(payload, "store_id"), Num(1), None)]]

\* server.py api_add_record
api_add_record(d, payload) ==
    LET q == record_request(d, payload)
        r == add_record_db(q.db, q.data)
    IN  IF q.rejected THEN Reply(q.db, 400, None)
        ELSE IF r.exc # "" THEN Reply(r.db, 500, None)
        ELSE Reply(r.db, 201, r.ret)

\* server.py api_update_record
api_update_record(d, rid, payload) ==
    LET q == record_request(d, payload)
        r == update_record_db(q.db, rid, q.data)
    IN  IF q.rejected THEN Reply(q.db, 400, None)
        ELSE IF r.exc # "" THEN Reply(r.db, 500, None)
        ELSE Reply(r.db, 204, None)

\* server.py api_delete_record
api_delete_record(d, rid) ==
    LET r == delete_record_db(d, rid)
    IN  IF r.exc # "" THEN Reply(r.db, 500, None) ELSE Reply(r.db, 204, None)

\* server.py api_create_artist
api_create_artist(d, payload) ==
    LET name    == sanitize_text(Get(payload, "name"))
        country == sanitize_text(Get(payload, "country"))
        r       == find_or_create_artist(d, name, country)
    IN  IF ~Truthy(name) THEN Reply(d, 400, None) ELSE Reply(r.db, 201, r.ret)

\* api_update_artist on a table whose name column is not UNIQUE.
api_update_artist_not_unique(d, aid, payload) ==
    LET name    == sanitize_text(Get(payload, "name"))
        country == sanitize_text(Get(payload, "country"))
    IN  IF ~Truthy(name) THEN Reply(d, 400, None)
        ELSE Reply([d EXCEPT !.Artists =
                       {IF a.artist_id = aid
                        THEN [a EXCEPT !.name = name, !.country = country] ELSE a
                           : a \in @}],
                   204, None)

\* server.py api_update_artist.  Artists.name is UNIQUE: an UPDATE that
\* would give a second row the name raises IntegrityError.
api_update_artist(d, aid, payload) ==
    LET name    == sanitize_text(Get(payload, "name"))
        country == sanitize_text(Get(payload, "country"))
        hit     == \E a \in d.Artists : a.artist_id = aid
        clash   == hit /\ \E a \in d.Artists : a.artist_id # aid /\ a.name = name
    IN  IF ~Truthy(name) THEN Reply(d, 400, None)
        ELSE IF clash THEN Reply(d, 500, None)
        ELSE Reply([d EXCEPT !.Artists =
                       {IF a.artist_id = aid
                        THEN [a EXCEPT !.name = name, !.country = country] ELSE a
                           : a \in @}],
                   204, None)

\* api_delete_artist without the count of the artist's records.
api_delete_artist_unguarded(d, aid) ==
    Reply([d EXCEPT !.Artists = {a \in @ : a.artist_id # aid}], 204, None)

\* server.py api_delete_artist
api_delete_artist(d, aid) ==
    LET cnt == Cardinality({r \in d.Records : r.artist_id = Num(aid)})
    IN  IF cnt > 0 THEN Reply(d, 400, None)
        ELSE Reply([d EXCEPT !.Artists = {a \in @ : a.artist_id # aid}], 204, None)

\* server.py api_create_genre
api_create_genre(d, payload) ==
    LET name == sanitize_text(Get(payload, "name"))
        r    == find_or_create_genre(d, name)
    IN  IF ~Truthy(name) THEN Reply(d, 400, None) ELSE Reply(r.db, 201, r.ret)

\* server.py api_update_genre.  Genres.name is UNIQUE.
api_update_genre(d, gid, payload) ==
    LET name  == sanitize_text(Get(payload, "name"))
        hit   == \E g \in d.Genres : g.genre_id = gid
        clash == hit /\ \E g \in d.Genres : g.genre_id # gid /\ g.name = name
    IN  IF ~Truthy(name) THEN Reply(d, 400, None)
        ELSE IF clash THEN Reply(d, 500, None)
        ELSE Reply([d EXCEPT !.Genres =
                       {IF g.genre_id = gid THEN [g EXCEPT !.name = name] ELSE g
                           : g \in @}],
                   204, None)

\* api_delete_genre without the reference count.
api_delete_genre_unguarded(d, gid) ==
    Reply([d EXCEPT !.Genres = {g \in @ : g.genre_id # gid}], 204, None)

\* server.py api_delete_genre
api_delete_genre(d, gid) ==
    LET cnt == Cardinality({r \in d.Records : r.genre_id = Num(gid)})
    IN  IF cnt > 0 THEN Reply(d, 400, None)
        ELSE Reply([d EXCEPT !.Genres = {g \in @ : g.genre_id # gid}], 204, None)

\* server.py api_create_store
api_create_store(d, payload) ==
    LET name    == sanitize_text(Get(payload, "name"))
        state   == sanitize_text(Get(payload, "state"))
        address == sanitize_text(Get(payload, "address"))
        r       == find_or_create_store(d, name, state, address)
    IN  IF ~Truthy(name) THEN Reply(d, 400, None) ELSE Reply(r.db, 201, r.ret)

\* server.py api_update_store
api_update_store(d, sid, payload) ==
    LET name    == sanitize_text(Get(payload, "name"))
        state   == sanitize_text(Get(payload, "state"))
        address == sanitize_text(Get(payload, "address"))
    IN  IF ~Truthy(name) THEN Reply(d, 400, None)
        ELSE Reply([d EXCEPT !.Stores =
                       {IF x.store_id = sid
                        THEN [x EXCEPT !.name = name, !.state = state,
                                       !.address = address]
                        ELSE x : x \in @}],
                   204, None)

\* api_delete_store without the DELETE FROM recordStores.
api_delete_store_keeps_links(d, sid) ==
    IF "recordStores" \notin d.tables THEN Reply(d, 500, None)
    ELSE Reply([d EXCEPT !.Stores = {x \in @ : x.store_id # sid}], 204, None)

\* server.py api_delete_store
api_delete_store(d, sid) ==
    IF "recordStores" \notin d.tables THEN Reply(d, 500, None)
    ELSE Reply([d EXCEPT !.recordStores = {l \in @ : l.store_id # sid},
                         !.Stores = {x \in @ : x.store_id # sid}],
               204, None)

\* ------------------------------------------------------------------ bounds
\* No table is given more than MaxId ids.
MaxId == 2

Ids == 1..MaxId

\* ------------------------------------------------------------------ inputs
BaseRecord ==
    [title         |-> Str(<<"a">>),
     artist_name   |-> None,
     genre         |-> None,
     year          |-> Num(1800),
     condition     |-> None,
     price         |-> Num(0),
     purchase_date |-> None,
     store_id      |-> None]

Date1 == Str(<<"2", "0", "2", "0", "-", "0", "1", "-", "0", "1">>)
Date2 == Str(<<"2", "0", "2", "1", "-", "1", "2", "-", "3", "1">>)

\* The values tried for each field of a record payload, besides BaseRecord's.
FieldValues ==
    [title         |-> {Str(<<" ">>), Str(<<" ", "b", " ">>)},
     artist_name   |-> {Str(<<"a", " ">>), Str(<<"b">>)},
     genre         |-> {Str(<<"g">>)},
     year          |-> {None, Str(<<"x">>), Num(1799), Str(<<"2", "1", "0", "0">>),
                        Num(2101)},
     condition     |-> {Str(<<"m">>)},
     price         |-> {None, Str(<<"x">>), Num(0 - 1), Num(5)},
     purchase_date |-> {Date1, Str(<<"2", "0", "2", "0", "/", "0", "1", "/", "0", "1">>)},
     store_id      |-> {Num(1), Num(2)}]

Vary(base, k, values) == {[base EXCEPT ![k] = v] : v \in values}

\* Record payloads: BaseRecord and every payload one field away from it.
RecordPayloads ==
    {BaseRecord} \cup UNION {Vary(BaseRecord, k, FieldValues[k]) : k \in DOMAIN FieldValues}

\* The payloads of PUT /api/records/<rid>.
UpdatePayloads ==
    {BaseRecord,
     [BaseRecord EXCEPT !.title = Str(<<" ", "b", " ">>)],
     [BaseRecord EXCEPT !.artist_name = Str(<<"a", " ">>)],
     [BaseRecord EXCEPT !.year = Num(1799)],
     [BaseRecord EXCEPT !.store_id = Num(1)]}

\* app.run(threaded=True): each request is served by a thread of its own.
\* Two of them are followed.
Threads == {"t1", "t2"}

\* A thread that serves no request.
Idle == [op |-> "", pc |-> "", arg |-> 0, payload |-> None, artist_id |-> None,
         genre_id |-> None]

\* ------------------------------------------------------------------ state
\* records.db when the process starts: an empty file, or a database that
\* already has every table and the link table recordStores (which no
\* statement of server.py creates), with no rows.
Init ==
    /\ tables \in {{}, SCHEMA \cup {"recordStores"}}
    /\ Artists = {}
    /\ Genres = {}
    /\ Stores = {}
    /\ Records = {}
    /\ recordStores = {}
    /\ sqlite_sequence = [t \in SCHEMA |-> 0]
    /\ resp = [op |-> "start", arg |-> 0, status |-> 0, json |-> None, exc |-> ""]
    /\ inflight = [t \in Threads |-> Idle]

\* init_db() has run: both entry points call it before they serve.
Started == SCHEMA \subseteq tables

Bounded(d) == \A t \in SCHEMA : d.sqlite_sequence[t] <= MaxId

\* The database becomes d.
Commit(d) ==
    /\ tables' = d.tables
    /\ Artists' = d.Artists
    /\ Genres' = d.Genres
    /\ Stores' = d.Stores
    /\ Records' = d.Records
    /\ recordStores' = d.recordStores
    /\ sqlite_sequence' = d.sqlite_sequence

\* A request to handler op, with arg the id in its path (0: none), answered
\* by the handler result reply.
Serve(op, arg, reply) ==
    /\ Started
    /\ \E h \in {reply} :
          /\ Bounded(h.db)
          /\ Commit(h.db)
          /\ resp' = [op |-> op, arg |-> arg, status |-> h.status, json |-> h.json,
                      exc |-> ""]
          /\ UNCHANGED inflight

InitDb ==
    /\ Commit(init_db(DB))
    /\ resp' = [op |-> "init_db", arg |-> 0, status |-> 0, json |-> None, exc |-> ""]
    /\ UNCHANGED inflight

ApiGetRecords ==
    Serve("api_get_records", 0, Reply(DB, 200, None))

ApiAddRecord(payload) ==
    Serve("api_add_record", 0, api_add_record(DB, payload))

ApiUpdateRecord(rid, payload) ==
    Serve("api_update_record", rid, api_update_record(DB, rid, payload))

ApiDeleteRecord(rid) ==
    Serve("api_delete_record", rid, api_delete_record(DB, rid))

\* The record endpoints of the facade, one request at a time.
Next ==
    \/ InitDb
    \/ ApiGetRecords
    \/ \E p \in RecordPayloads : ApiAddRecord(p)
    \/ \E rid \in Ids, p \in UpdatePayloads : ApiUpdateRecord(rid, p)
    \/ \E rid \in Ids : ApiDeleteRecord(rid)

Spec == Init /\ [][Next]_vars

\* ------------------------------------------------------- record endpoints
\* The claims below are stated of a handler in every reachable state of the
\* database: whatever was served before, the request answered now has the
\* stated reply and leaves the stated database.

LinkTable == "recordStores" \in tables

\* A payload as C1 takes it: a title that is not blank, an integer year in
\* [1800, 2100], a price >= 0.
ValidRecord(p) ==
    /\ IsStr(p.title) /\ strip(p.title.str) # <<>>
    /\ IsNum(p.year) /\ p.year.num >= 1800 /\ p.year.num <= 2100
    /\ IsNum(p.price) /\ p.price.num >= 0

\* GET /api/records on database d has exactly one entry for record id, and
\* it carries the values of payload p.
Listed(d, id, p) ==
    LET rows == fetch_all_records_db(d)
        hits == {k \in 1..Len(rows) : Num(rows[k].record_id) = id}
    IN  /\ Cardinality(hits) = 1
        /\ \A k \in hits :
              /\ rows[k].title = sanitize_text(p.title)
              /\ rows[k].artist = sanitize_text(p.artist_name)
              /\ rows[k].genre = sanitize_text(p.genre)
              /\ rows[k].year = p.year
              /\ rows[k].condition = sanitize_text(p.condition)
              /\ rows[k].price = p.price
              /\ rows[k].purchase_date = parse_date_yyyy_mm_dd(p.purchase_date)

\* POST /api/records with p answers 201 with an id no record has, and the
\* record is listed with the values of p.
Created(p) ==
    LET h == api_add_record(DB, p)
    IN  /\ h.status = 201
        /\ IsNum(h.json)
        /\ \A r \in Records : r.record_id # h.json.num
        /\ Listed(h.db, h.json, p)

\* C1: POST /api/records with a valid payload answers 201 with a new
\* record_id, and GET /api/records then has exactly one entry with that id,
\* carrying the submitted (sanitized) title, artist, genre, year, condition,
\* price and purchase_date.
C1_ValidRecordCreated ==
    Started => \A p \in RecordPayloads : ValidRecord(p) => Created(p)

\* The same where the link table exists.
C1_ValidRecordCreatedLinked ==
    Started /\ LinkTable => \A p \in RecordPayloads : ValidRecord(p) => Created(p)

\* A record was created with an artist, and is listed.
C1_Witness ==
    /\ resp.op = "api_add_record" /\ resp.status = 201
    /\ \E r \in Records : Num(r.record_id) = resp.json /\ ~IsNone(r.artist_id)
    /\ Len(fetch_all_records_db(DB)) = 2

\* C3: once init_db() has run the four entity tables and the link table
\* exist, so that DELETE /api/records/<rid> finds the link table.
C3_InitCreatesLinkTable ==
    resp.op = "init_db" =>
        /\ SCHEMA \cup {"recordStores"} \subseteq tables
        /\ \A rid \in Ids : api_delete_record(DB, rid).status = 204

\* init_db() run again changes nothing.
C3_InitIdempotent ==
    Started => init_db(DB) = DB

\* C6: with the link table in place, DELETE /api/records/<rid> of a stored
\* record removes the record's artist when no other record has that artist,
\* leaves the artist when another record has it, and removes no artist when
\* the record has none.
C6_DeleteRecordCascade ==
    Started /\ LinkTable =>
        \A row \in Records :
            LET h      == api_delete_record(DB, row.record_id)
                a      == row.artist_id
                others == {r \in Records \ {row} : r.artist_id = a}
            IN  /\ h.status = 204
                /\ h.db.Records = Records \ {row}
                /\ h.db.Artists =
                      IF ~IsNone(a) /\ others = {}
                      THEN {x \in Artists : Num(x.artist_id) # a}
                      ELSE Artists

\* A DELETE took the last record of an artist, and the artist with it, while
\* a record of no artist stays.
C6_Witness ==
    /\ resp.op = "api_delete_record" /\ resp.status = 204
    /\ Artists = {} /\ sqlite_sequence["Artists"] > 0
    /\ Records # {}

\* ----------------------------------------------------- repository, direct
\* The repository functions called without the facade in front (gui_records
\* imports them), next to POST /api/records.
Call(op, arg, result) ==
    /\ Started
    /\ \E r \in {result} :
          /\ Bounded(r.db)
          /\ Commit(r.db)
          /\ resp' = [op |-> op, arg |-> arg, status |-> 0, json |-> r.ret,
                      exc |-> r.exc]
          /\ UNCHANGED inflight

AddRecordDb(data) == Call("add_record_db", 0, add_record_db(DB, data))

UpdateRecordDb(rid, data) ==
    Call("update_record_db", rid, update_record_db(DB, rid, data))

DeleteRecordDb(rid) == Call("delete_record_db", rid, delete_record_db(DB, rid))

FindOrCreateArtist(name, country) ==
    Call("find_or_create_artist", 0, find_or_create_artist(DB, name, country))

FindOrCreateGenre(name) ==
    Call("find_or_create_genre", 0, find_or_create_genre(DB, name))

FindOrCreateStore(name, state, address) ==
    Call("find_or_create_store", 0, find_or_create_store(DB, name, state, address))

\* The dicts handed to add_record_db and update_record_db: a dict holds the
\* keys it was given, and no store_id key unless stated.
BaseData == [title |-> Str(<<"a">>), year |-> Num(1800), price |-> Num(0)]

RepoData ==
    {BaseData}
    \cup Vary(BaseData, "title", {None, Str(<<>>)})
    \cup Vary(BaseData, "year", {None, Str(<<"x">>), Num(1799), Num(2101)})
    \cup Vary(BaseData, "price", {None, Str(<<"x">>), Num(0 - 1), NaN})
    \cup {("artist_id" :> Num(1)) @@ BaseData,
          ("store_id" :> Num(1)) @@ BaseData}

UpdateData ==
    {BaseData,
     [BaseData EXCEPT !.year = Num(1799)],
     ("store_id" :> Num(2)) @@ BaseData,
     ("store_id" :> None) @@ BaseData}

\* Payloads whose price is nan: the JSON literal NaN and the string 'nan'.
NaNPayloads == Vary(BaseRecord, "price", {NaN, Str(<<"n", "a", "n">>)})

\* The payloads POSTed next to the direct calls.
RepoPayloads ==
    NaNPayloads
    \cup Vary(BaseRecord, "year", FieldValues.year)
    \cup Vary(BaseRecord, "price", FieldValues.price)

\* The record repository called directly, next to POST /api/records.
NextRepo ==
    \/ InitDb
    \/ \E p \in RepoPayloads : ApiAddRecord(p)
    \/ \E data \in RepoData : AddRecordDb(data)
    \/ \E rid \in Ids, data \in UpdateData : UpdateRecordDb(rid, data)
    \/ \E rid \in Ids : DeleteRecordDb(rid)

SpecRepo == Init /\ [][NextRepo]_vars

\* Names and addresses given to find-or-create.
Names == {Str(<<" ">>), Str(<<"a">>), Str(<<" ", "a", " ">>), Str(<<"b">>)}

Addresses == {None, Str(<<"x">>)}

ApiDeleteStore(sid) == Serve("api_delete_store", sid, api_delete_store(DB, sid))

\* Find-or-create called directly; stores come and go.
NextFindOrCreate ==
    \/ InitDb
    \/ \E name \in Names : FindOrCreateArtist(name, None)
    \/ \E name \in Names : FindOrCreateGenre(name)
    \/ \E name \in Names, address \in Addresses : FindOrCreateStore(name, None, address)
    \/ \E sid \in Ids : ApiDeleteStore(sid)

SpecFindOrCreate == Init /\ [][NextFindOrCreate]_vars

\* The year or the price is one C2 names: missing, one that int() or
\* float() refuses, or a number out of range.
BadYearOrPrice(p) ==
    LET year  == Get(p, "year")
        price == Get(p, "price")
    IN  \/ IsNone(year) \/ py_int(year) = Raised
        \/ IsNum(year) /\ (year.num < 1800 \/ year.num > 2100)
        \/ IsNone(price) \/ py_float(price) = Raised
        \/ IsNum(price) /\ price.num < 0

\* C2: a record whose year is below 1800, above 2100, missing or unparsable,
\* or whose price is negative, missing or unparsable, is refused: POST
\* /api/records answers 400 and add_record_db raises ValueError, and the
\* Records rows stay as they were.
C2_InvalidRecordRefused ==
    Started =>
        /\ \A p \in RepoPayloads : BadYearOrPrice(p) =>
              LET h == api_add_record(DB, p)
              IN  h.status = 400 /\ h.db.Records = Records
        /\ \A data \in RepoData : BadYearOrPrice(data) =>
              LET r == add_record_db(DB, data)
              IN  r.exc = "ValueError" /\ r.db.Records = Records

\* The repository has refused a record while a record is stored.
C2_Witness ==
    /\ Records # {}
    /\ resp.op = "add_record_db" /\ resp.exc = "ValueError"

\* C4: every stored record has a year in [1800, 2100], a price >= 0 and a
\* title that is not empty.
C4_StoredRecordsValid ==
    \A r \in Records :
        /\ IsNum(r.year) /\ r.year.num >= 1800 /\ r.year.num <= 2100
        /\ IsNum(r.price) /\ r.price.num >= 0
        /\ IsStr(r.title) /\ r.title.str # <<>>

\* Rows of a table of d with this name.
Named(rows, name) == {x \in rows : x.name = Str(strip(name.str))}

\* Two calls in a row return the same id, the second leaves the database as
\* the first left it, and a name no row had is the name of one row.
Idempotent(first, second, before, after, name) ==
    /\ first.exc = "" /\ second.exc = ""
    /\ IsNum(first.ret)
    /\ second.ret = first.ret
    /\ second.db = first.db
    /\ Named(before, name) = {} => Cardinality(Named(after, name)) = 1

\* C5: find-or-create called twice in a row with the same non-empty name
\* (for a store, the same address too) returns the same id both times, the
\* second call inserts no row, and a name that had no row has one.
C5_FindOrCreateIdempotent ==
    Started =>
        \A name \in {n \in Names : IsStr(n) /\ strip(n.str) # <<>>} :
            /\ LET r1 == find_or_create_artist(DB, name, None)
                   r2 == find_or_create_artist(r1.db, name, None)
               IN  Idempotent(r1, r2, Artists, r2.db.Artists, name)
            /\ LET r1 == find_or_create_genre(DB, name)
                   r2 == find_or_create_genre(r1.db, name)
               IN  Idempotent(r1, r2, Genres, r2.db.Genres, name)
            /\ \A address \in Addresses :
                  LET r1 == find_or_create_store(DB, name, None, address)
                      r2 == find_or_create_store(r1.db, name, None, address)
                  IN  Idempotent(r1, r2, Stores, r2.db.Stores, name)

\* A second call found the store the first one made, among stores of one
\* name and different addresses.
C5_Witness ==
    /\ resp.op = "find_or_create_store" /\ resp.json = Num(1)
    /\ Cardinality(Stores) = 2
    /\ \A x \in Stores : x.name = Str(<<"a">>)

\* ------------------------------------------------------- entity endpoints
\* Rows in the order of ORDER BY name; rows of one name by id (SQL leaves
\* their order open).
RECURSIVE order_by_name(_, _)
order_by_name(rows, id) ==
    IF rows = {} THEN <<>>
    ELSE LET m == CHOOSE x \in rows : \A y \in rows :
                     \/ x.name = y.name /\ x[id] <= y[id]
                     \/ x.name # y.name /\ str_le(x.name.str, y.name.str)
         IN  <<m>> \o order_by_name(rows \ {m}, id)

\* server.py get_artists_db, get_genres_db, get_stores_db
get_artists_db(d) == order_by_name(d.Artists, "artist_id")
get_genres_db(d)  == order_by_name(d.Genres, "genre_id")
get_stores_db(d)  == order_by_name(d.Stores, "store_id")

ApiGetArtists == Serve("api_get_artists", 0, Reply(DB, 200, None))
ApiGetGenres  == Serve("api_get_genres", 0, Reply(DB, 200, None))
ApiGetStores  == Serve("api_get_stores", 0, Reply(DB, 200, None))

ApiCreateArtist(payload) ==
    Serve("api_create_artist", 0, api_create_artist(DB, payload))

ApiUpdateArtist(aid, payload) ==
    Serve("api_update_artist", aid, api_update_artist(DB, aid, payload))

ApiDeleteArtist(aid) == Serve("api_delete_artist", aid, api_delete_artist(DB, aid))

ApiCreateGenre(payload) ==
    Serve("api_create_genre", 0, api_create_genre(DB, payload))

ApiUpdateGenre(gid, payload) ==
    Serve("api_update_genre", gid, api_update_genre(DB, gid, payload))

ApiDeleteGenre(gid) == Serve("api_delete_genre", gid, api_delete_genre(DB, gid))

ApiCreateStore(payload) ==
    Serve("api_create_store", 0, api_create_store(DB, payload))

ApiUpdateStore(sid, payload) ==
    Serve("api_update_store", sid, api_update_store(DB, sid, payload))

\* The record payloads that name an artist or a genre.
EntityRecordPayloads ==
    {BaseRecord}
    \cup Vary(BaseRecord, "artist_name", {Str(<<"a", " ">>)})
    \cup Vary(BaseRecord, "genre", {Str(<<"g">>)})

ArtistPayloads ==
    {[name |-> n, country |-> None] : n \in {Str(<<" ">>), Str(<<"a">>), Str(<<"b">>)}}

GenrePayloads == {[name |-> n] : n \in {Str(<<" ">>), Str(<<"g">>), Str(<<"a">>)}}

\* The artist and genre endpoints, with records that refer to artists and
\* genres.
NextEntities ==
    \/ InitDb
    \/ \E p \in EntityRecordPayloads : ApiAddRecord(p)
    \/ \E rid \in Ids : ApiDeleteRecord(rid)
    \/ ApiGetArtists
    \/ ApiGetGenres
    \/ \E p \in ArtistPayloads : ApiCreateArtist(p)
    \/ \E aid \in Ids, p \in ArtistPayloads : ApiUpdateArtist(aid, p)
    \/ \E aid \in Ids : ApiDeleteArtist(aid)
    \/ \E p \in GenrePayloads : ApiCreateGenre(p)
    \/ \E gid \in Ids, p \in GenrePayloads : ApiUpdateGenre(gid, p)
    \/ \E gid \in Ids : ApiDeleteGenre(gid)

SpecEntities == Init /\ [][NextEntities]_vars

\* The record payloads that name a store.
StoreRecordPayloads == {BaseRecord} \cup Vary(BaseRecord, "store_id", {Num(1), Num(2)})

StorePayloads ==
    {[name |-> n, state |-> None, address |-> a] :
        n \in {Str(<<" ">>), Str(<<"a">>)}, a \in Addresses}

\* The store endpoints, with records linked to stores.
NextStores ==
    \/ InitDb
    \/ \E p \in StoreRecordPayloads : ApiAddRecord(p)
    \/ \E rid \in Ids, p \in StoreRecordPayloads : ApiUpdateRecord(rid, p)
    \/ \E rid \in Ids : ApiDeleteRecord(rid)
    \/ ApiGetStores
    \/ \E p \in StorePayloads : ApiCreateStore(p)
    \/ \E sid \in Ids, p \in StorePayloads : ApiUpdateStore(sid, p)
    \/ \E sid \in Ids : ApiDeleteStore(sid)

SpecStores == Init /\ [][NextStores]_vars

\* The ids of the entries of a list.
ListedIds(rows, id) == {rows[k][id] : k \in 1..Len(rows)}

\* C7: DELETE /api/genres/<gid> and DELETE /api/artists/<aid> of an entity
\* some record refers to answer 400 and leave every table as it was, so the
\* list endpoint still returns the entity; with no record referring to it
\* the entity's row is removed.
C7_ReferencedEntityKept ==
    Started =>
        /\ \A gid \in Ids :
              LET h == api_delete_genre(DB, gid)
              IN  IF \E r \in Records : r.genre_id = Num(gid)
                  THEN /\ h.status = 400
                       /\ h.db = DB
                       /\ gid \in ListedIds(get_genres_db(h.db), "genre_id")
                  ELSE /\ h.status = 204
                       /\ h.db.Genres = {g \in Genres : g.genre_id # gid}
        /\ \A aid \in Ids :
              LET h == api_delete_artist(DB, aid)
              IN  IF \E r \in Records : r.artist_id = Num(aid)
                  THEN /\ h.status = 400
                       /\ h.db = DB
                       /\ aid \in ListedIds(get_artists_db(h.db), "artist_id")
                  ELSE /\ h.status = 204
                       /\ h.db.Artists = {a \in Artists : a.artist_id # aid}

\* A genre delete was refused, and an unreferenced genre is gone.
C7_Witness ==
    /\ resp.op = "api_delete_genre" /\ resp.status = 400
    /\ \E r \in Records : r.genre_id = Num(resp.arg)
    /\ Cardinality(Genres) = 1 /\ sqlite_sequence["Genres"] = 2

\* C10: with the link table in place DELETE /api/stores/<sid> always answers
\* 204; the store's row and every link to the store are gone, every other
\* store and link stays, and Records, Artists and Genres are as before.
C10_StoreDeleteUnconditional ==
    Started /\ LinkTable =>
        \A sid \in Ids :
            LET h == api_delete_store(DB, sid)
            IN  /\ h.status = 204
                /\ h.db.Stores = {x \in Stores : x.store_id # sid}
                /\ h.db.recordStores = {l \in recordStores : l.store_id # sid}
                /\ h.db.Records = Records
                /\ h.db.Artists = Artists
                /\ h.db.Genres = Genres

\* A store with a record linked to it was deleted: the record stays, with
\* no link.
C10_Witness ==
    /\ resp.op = "api_delete_store" /\ resp.status = 204
    /\ Stores = {} /\ sqlite_sequence["Stores"] > 0
    /\ Records # {} /\ recordStores = {}
    /\ \E r \in Records : r.record_id = 2

\* ----------------------------------------------------------------- report
ApiReportRecords(payload) ==
    Serve("api_report_records", 0,
          Reply(DB, api_report_records(DB, payload).status, None))

\* The records a report is asked about: with and without an artist, a genre,
\* a purchase date and a store, alone and together.
ReportRecordPayloads ==
    {BaseRecord,
     [BaseRecord EXCEPT !.artist_name = Str(<<"a">>)],
     [BaseRecord EXCEPT !.genre = Str(<<"g">>), !.purchase_date = Date1],
     [BaseRecord EXCEPT !.purchase_date = Date2, !.store_id = Num(1)],
     [BaseRecord EXCEPT !.artist_name = Str(<<"a">>), !.purchase_date = Date2,
                        !.store_id = Num(2)],
     [BaseRecord EXCEPT !.artist_name = Str(<<"a">>), !.genre = Str(<<"g">>),
                        !.purchase_date = Date1, !.store_id = Num(1)]}

\* The filters of a report: each one absent or given.
ReportPayloads ==
    [start_date : {None, Date1, Date2},
     end_date   : {None, Date1},
     artist_id  : {None, Num(1)},
     genre_id   : {None, Num(1)},
     store_id   : {None, Num(1)}]

\* Records come and change; reports are asked.
NextReport ==
    \/ InitDb
    \/ \E p \in ReportRecordPayloads : ApiAddRecord(p)
    \/ \E rid \in Ids, p \in StoreRecordPayloads : ApiUpdateRecord(rid, p)
    \/ \E p \in ReportPayloads : ApiReportRecords(p)

SpecReport == Init /\ [][NextReport]_vars

\* Record r satisfies every filter payload p gives.
Satisfies(r, p) ==
    /\ ~IsNone(p.start_date) =>
          IsStr(r.purchase_date) /\ str_le(p.start_date.str, r.purchase_date.str)
    /\ ~IsNone(p.end_date) =>
          IsStr(r.purchase_date) /\ str_le(r.purchase_date.str, p.end_date.str)
    /\ ~IsNone(p.artist_id) => r.artist_id = p.artist_id
    /\ ~IsNone(p.genre_id) => r.genre_id = p.genre_id
    /\ ~IsNone(p.store_id) =>
          \E l \in recordStores :
              l.record_id = r.record_id /\ Num(l.store_id) = p.store_id

C9_CountIsNumberOfRows ==
    Started =>
        \A p \in ReportPayloads :
            LET rep == api_report_records(DB, p)
            IN  rep.status = 200 => rep.stats.count = Len(rep.rows)

\* ----------------------------------------------------------- record update
\* The store ids record id is linked to in database d.
LinksOf(d, id) == {l.store_id : l \in {x \in d.recordStores : x.record_id = id}}

\* A dict the repository's validation is meant to pass: a title, an integer
\* year in [1800, 2100], a price >= 0.
ValidData(data) ==
    /\ ~IsNone(Get(data, "title"))
    /\ IsNum(Get(data, "year")) /\ data.year.num >= 1800 /\ data.year.num <= 2100
    /\ IsNum(Get(data, "price")) /\ data.price.num >= 0

\* update_record_db(id, data) on the current database: no exception, the row
\* of record id carries the scalar values of data, its links are {store_id}
\* when the key is there with a value, none when it is there without one, as
\* before when it is not there; every other row and link is as before.
Updated(id, data) ==
    LET r == update_record_db(DB, id, data)
    IN  /\ r.exc = ""
        /\ \A x \in r.db.Records : x.record_id = id =>
              /\ x.title = data.title
              /\ x.artist_id = Get(data, "artist_id")
              /\ x.genre_id = Get(data, "genre_id")
              /\ x.year = data.year
              /\ x.condition = Get(data, "condition")
              /\ x.price = data.price
              /\ x.purchase_date = Get(data, "purchase_date")
        /\ {x.record_id : x \in r.db.Records} = {x.record_id : x \in Records}
        /\ {x \in r.db.Records : x.record_id # id} = {x \in Records : x.record_id # id}
        /\ LinksOf(r.db, id) =
              IF "store_id" \notin DOMAIN data THEN LinksOf(DB, id)
              ELSE IF Truthy(data.store_id) THEN {data.store_id.num}
              ELSE {}
        /\ {l \in r.db.recordStores : l.record_id # id}
              = {l \in recordStores : l.record_id # id}

\* C11: update_record_db with valid data overwrites the scalar fields of a
\* stored record; with a store_id key the record's links become {store_id},
\* or none for a null store_id; without the key they stay; the links of
\* other records never change.
C11_UpdateReplacesLinks ==
    Started =>
        \A row \in Records, data \in UpdateData :
            ValidData(data) => Updated(row.record_id, data)

\* The same where the link table exists.
C11_UpdateReplacesLinksLinked ==
    Started /\ LinkTable =>
        \A row \in Records, data \in UpdateData :
            ValidData(data) => Updated(row.record_id, data)

\* ------------------------------------------------------ presentation layer
\* gui_records.py calls the facade through helpers that carry the names of
\* the handlers; here they are gui_<name>.  `up` says whether the facade
\* answers: when it does not, requests raises ConnectionError.

\* server.py api_get_records: the rows as dicts.
api_get_records(d) == fetch_all_records_db(d)

\* resp = requests.<method>(...); resp.raise_for_status(); the id of the body.
\* Only a reply of the facade can change the database.
request(d, up, reply) ==
    IF ~up THEN Raise(d, "ConnectionError")
    ELSE IF reply.status >= 400 THEN [db |-> reply.db, ret |-> None, exc |-> "HTTPError"]
    ELSE Return(reply.db, reply.json)

\* gui_records.py api_fetch_all_records: any exception falls back to
\* fetch_all_records_db, whose rows are zipped with the column names.
gui_api_fetch_all_records(d, up) ==
    IF up THEN Return(d, api_get_records(d)) ELSE Return(d, fetch_all_records_db(d))

\* gui_records.py api_add_record, api_update_record, api_delete_record
gui_api_add_record(d, up, payload) == request(d, up, api_add_record(d, payload))

gui_api_update_record(d, up, rid, payload) ==
    request(d, up, api_update_record(d, rid, payload))

gui_api_delete_record(d, up, rid) == request(d, up, api_delete_record(d, rid))

\* server.py api_get_artists: the rows as dicts.
api_get_artists(d) ==
    LET rows == get_artists_db(d)
    IN  [k \in 1..Len(rows) |->
            [artist_id |-> rows[k].artist_id, name |-> rows[k].name,
             country |-> rows[k].country]]

\* gui_records.py api_get_artists: the fallback keeps the id and the name.
gui_api_get_artists(d, up) ==
    LET rows == get_artists_db(d)
    IN  IF up THEN Return(d, api_get_artists(d))
        ELSE Return(d, [k \in 1..Len(rows) |->
                           [artist_id |-> rows[k].artist_id, name |-> rows[k].name]])

\* gui_records.py api_create_artist
gui_api_create_artist(d, up, name, country) ==
    LET payload == IF Truthy(country) THEN [name |-> name, country |-> country]
                   ELSE [name |-> name]
    IN  request(d, up, api_create_artist(d, payload))

\* gui_records.py api_delete_store
gui_api_delete_store(d, up, sid) == request(d, up, api_delete_store(d, sid))

\* resp.raise_for_status(); return resp.json() of api_report_records: the
\* report, or the exception.
report_json(d, up, rep) ==
    IF ~up THEN Raise(d, "ConnectionError")
    ELSE IF rep.status >= 400 THEN Raise(d, "HTTPError")
    ELSE Return(d, rep)

\* gui_records.py api_report_records
gui_api_report_records(d, up, filters) ==
    report_json(d, up, api_report_records(d, filters))

\* A call of a helper by the window: arg is 1 when the facade answers.  An
\* exception of the helper is shown in a message box (on_add, on_edit,
\* on_delete, add_artist, delete_store, generate).
Gui(op, up, result) ==
    Call(op, IF up THEN 1 ELSE 0, [result EXCEPT !.ret = None])

GuiFetchAllRecords(up) ==
    Gui("gui_api_fetch_all_records", up, gui_api_fetch_all_records(DB, up))

GuiAddRecord(up, payload) ==
    Gui("gui_api_add_record", up, gui_api_add_record(DB, up, payload))

GuiUpdateRecord(up, rid, payload) ==
    Gui("gui_api_update_record", up, gui_api_update_record(DB, up, rid, payload))

GuiDeleteRecord(up, rid) ==
    Gui("gui_api_delete_record", up, gui_api_delete_record(DB, up, rid))

GuiGetArtists(up) == Gui("gui_api_get_artists", up, gui_api_get_artists(DB, up))

GuiCreateArtist(up, name) ==
    Gui("gui_api_create_artist", up, gui_api_create_artist(DB, up, name, None))

GuiDeleteStore(up, sid) ==
    Gui("gui_api_delete_store", up, gui_api_delete_store(DB, up, sid))

GuiReportRecords(up, filters) ==
    Gui("gui_api_report_records", up, gui_api_report_records(DB, up, filters))

\* What the record dialog sends.
GuiRecordPayloads ==
    {BaseRecord,
     [BaseRecord EXCEPT !.artist_name = Str(<<"a">>)],
     [BaseRecord EXCEPT !.store_id = Num(1)],
     [BaseRecord EXCEPT !.year = Num(1799)]}

GuiNames == {Str(<<"a">>), Str(<<"b">>)}

GuiFilters ==
    {[artist_id |-> a, store_id |-> s] : a \in {None, Num(1)}, s \in {None, Num(1)}}

\* The window at work, the facade answering or not.
NextGui ==
    \/ InitDb
    \/ \E up \in BOOLEAN : GuiFetchAllRecords(up)
    \/ \E up \in BOOLEAN, p \in GuiRecordPayloads : GuiAddRecord(up, p)
    \/ \E up \in BOOLEAN, rid \in Ids, p \in GuiRecordPayloads : GuiUpdateRecord(up, rid, p)
    \/ \E up \in BOOLEAN, rid \in Ids : GuiDeleteRecord(up, rid)
    \/ \E up \in BOOLEAN : GuiGetArtists(up)
    \/ \E up \in BOOLEAN, name \in GuiNames : GuiCreateArtist(up, name)
    \/ \E up \in BOOLEAN, sid \in Ids : GuiDeleteStore(up, sid)
    \/ \E up \in BOOLEAN, f \in GuiFilters : GuiReportRecords(up, f)
    \/ \E name \in GuiNames : FindOrCreateStore(name, None, None)

SpecGui == Init /\ [][NextGui]_vars

\* With the facade unreachable the helper leaves the database as it does
\* over HTTP, and raises nothing when the call over HTTP raises nothing.
FallsBack(down, http) ==
    /\ down.db = http.db
    /\ http.exc = "" => down.exc = ""

\* C12: with the facade unreachable every helper of the window has the
\* effect on storage it has over HTTP, and shows no error unless the
\* operation fails over HTTP too.
C12_FallbackWhenUnreachable ==
    Started =>
        /\ FallsBack(gui_api_fetch_all_records(DB, FALSE),
                     gui_api_fetch_all_records(DB, TRUE))
        /\ FallsBack(gui_api_get_artists(DB, FALSE), gui_api_get_artists(DB, TRUE))
        /\ \A p \in GuiRecordPayloads :
              FallsBack(gui_api_add_record(DB, FALSE, p), gui_api_add_record(DB, TRUE, p))
        /\ \A rid \in Ids, p \in GuiRecordPayloads :
              FallsBack(gui_api_update_record(DB, FALSE, rid, p),
                        gui_api_update_record(DB, TRUE, rid, p))
        /\ \A rid \in Ids :
              FallsBack(gui_api_delete_record(DB, FALSE, rid),
                        gui_api_delete_record(DB, TRUE, rid))
        /\ \A name \in GuiNames :
              FallsBack(gui_api_create_artist(DB, FALSE, name, None),
                        gui_api_create_artist(DB, TRUE, name, None))
        /\ \A sid \in Ids :
              FallsBack(gui_api_delete_store(DB, FALSE, sid),
                        gui_api_delete_store(DB, TRUE, sid))
        /\ \A f \in GuiFilters :
              FallsBack(gui_api_report_records(DB, FALSE, f),
                        gui_api_report_records(DB, TRUE, f))

\* The list helpers do fall back.
C12_ListsFallBack ==
    Started =>
        /\ gui_api_fetch_all_records(DB, FALSE) = gui_api_fetch_all_records(DB, TRUE)
        /\ FallsBack(gui_api_get_artists(DB, FALSE), gui_api_get_artists(DB, TRUE))

\* ----------------------------------------------------------- unique names
\* C13: no two Artists rows have the same name and no two Genres rows have
\* the same name, whatever find-or-create, POST and PUT calls were made.
C13_NamesUnique ==
    /\ \A a, b \in Artists : a.name = b.name => a = b
    /\ \A g, h \in Genres : g.name = h.name => g = h

\* A PUT that would give a second artist the name of the first was refused,
\* and the two artists stand with their names.
C13_Witness ==
    /\ resp.op = "api_update_artist" /\ resp.status = 500
    /\ {a.name : a \in Artists} = {Str(<<"a">>), Str(<<"b">>)}

\* ------------------------------------------------------ concurrent requests
\* The handlers statement by statement, as far as another thread can come
\* between: every conn.commit() ends a step.

\* delete_record_db up to its first commit: the artist of the record is
\* read, its links and its row are deleted.
delete_record_rows(d, record_id) ==
    LET row       == {r \in d.Records : r.record_id = record_id}
        artist_id == IF row = {} THEN None ELSE (CHOOSE r \in row : TRUE).artist_id
    IN  IF "recordStores" \notin d.tables THEN Raise(d, "OperationalError")
        ELSE Return([d EXCEPT !.recordStores = {l \in @ : l.record_id # record_id},
                              !.Records = @ \ row],
                    artist_id)

\* delete_record_db: SELECT COUNT(*) FROM Records WHERE artist_id = ?
count_records_of_artist(d, artist_id) ==
    Cardinality({r \in d.Records : r.artist_id = artist_id})

\* A DELETE of the artist that looks at Records again in the same statement.
delete_artist_if_orphan(d, artist_id) ==
    IF \E r \in d.Records : r.artist_id = artist_id THEN d
    ELSE [d EXCEPT !.Artists = {a \in @ : a.artist_id # artist_id.num}]

\* delete_record_db: DELETE FROM Artists WHERE artist_id = ?, and the commit.
delete_artist_row(d, artist_id) ==
    [d EXCEPT !.Artists = {a \in @ : a.artist_id # artist_id.num}]

\* api_add_record from the parse of the year on, with the ids the
\* find-or-create calls returned.
record_data(payload, artist_id, genre_id) ==
    LET year  == parse_int(Get(payload, "year"), Num(1800), Num(2100))
        price == parse_float(Get(payload, "price"), Num(0), None)
    IN  IF IsNone(year) \/ IsNone(price) THEN [rejected |-> TRUE, data |-> <<>>]
        ELSE [rejected |-> FALSE, data |->
                [title         |-> sanitize_text(Get(payload, "title")),
                 artist_id     |-> artist_id,
                 genre_id      |-> genre_id,
                 year          |-> year,
                 condition     |-> sanitize_text(Get(payload, "condition")),
                 price         |-> price,
                 purchase_date |-> parse_date_yyyy_mm_dd(Get(payload, "purchase_date")),
                 store_id      |-> parse_int(Get(payload, "store_id"), Num(1), None)]]

\* Thread t answers its request.
Finish(t, op, arg, status, json) ==
    /\ inflight' = [inflight EXCEPT ![t] = Idle]
    /\ resp' = [op |-> op, arg |-> arg, status |-> status, json |-> json, exc |-> ""]

\* Thread t goes on to its next statement.
Continue(t, next) ==
    /\ inflight' = [inflight EXCEPT ![t] = next]
    /\ UNCHANGED resp

\* DELETE /api/records/<rid> arrives at thread t and runs to the first
\* commit of delete_record_db.
BeginDeleteRecord(t, rid) ==
    /\ Started
    /\ inflight[t] = Idle
    /\ \E r \in {delete_record_rows(DB, rid)} :
          /\ Commit(r.db)
          /\ IF r.exc # "" THEN Finish(t, "api_delete_record", rid, 500, None)
             ELSE IF Truthy(r.ret)
                  THEN Continue(t, [Idle EXCEPT !.op = "api_delete_record",
                                                !.pc = "count", !.arg = rid,
                                                !.artist_id = r.ret])
             ELSE Finish(t, "api_delete_record", rid, 204, None)

\* The thread counts the records of the artist.
CountRecordsOfArtist(t) ==
    /\ inflight[t].op = "api_delete_record" /\ inflight[t].pc = "count"
    /\ UNCHANGED <<tables, Artists, Genres, Stores, Records, recordStores,
                   sqlite_sequence>>
    /\ IF count_records_of_artist(DB, inflight[t].artist_id) = 0
       THEN Continue(t, [inflight[t] EXCEPT !.pc = "delete_artist"])
       ELSE Finish(t, "api_delete_record", inflight[t].arg, 204, None)

\* The thread, having counted none, deletes the artist.
DeleteArtistRow(t) ==
    /\ inflight[t].op = "api_delete_record" /\ inflight[t].pc = "delete_artist"
    /\ Commit(delete_artist_row(DB, inflight[t].artist_id))
    /\ Finish(t, "api_delete_record", inflight[t].arg, 204, None)

\* POST /api/records arrives at thread t and runs to the return of
\* find_or_create_artist.
BeginAddRecord(t, payload) ==
    /\ Started
    /\ inflight[t] = Idle
    /\ LET artist_name == sanitize_text(Get(payload, "artist_name"))
           a           == IF Truthy(artist_name)
                          THEN find_or_create_artist(DB, artist_name, None)
                          ELSE Return(DB, None)
       IN  IF ~Truthy(sanitize_text(Get(payload, "title")))
           THEN /\ UNCHANGED <<tables, Artists, Genres, Stores, Records, recordStores,
                               sqlite_sequence>>
                /\ Finish(t, "api_add_record", 0, 400, None)
           ELSE /\ Bounded(a.db)
                /\ Commit(a.db)
                /\ Continue(t, [Idle EXCEPT !.op = "api_add_record", !.pc = "genre",
                                            !.payload = payload, !.artist_id = a.ret])

\* The thread finds or creates the genre.
AddRecordGenre(t) ==
    /\ inflight[t].op = "api_add_record" /\ inflight[t].pc = "genre"
    /\ LET genre_name == sanitize_text(Get(inflight[t].payload, "genre"))
           g          == IF Truthy(genre_name)
                         THEN find_or_create_genre(DB, genre_name)
                         ELSE Return(DB, None)
       IN  /\ Bounded(g.db)
           /\ Commit(g.db)
           /\ Continue(t, [inflight[t] EXCEPT !.pc = "insert", !.genre_id = g.ret])

\* The thread validates the rest and inserts the record.
AddRecordInsert(t) ==
    /\ inflight[t].op = "api_add_record" /\ inflight[t].pc = "insert"
    /\ LET q == record_data(inflight[t].payload, inflight[t].artist_id,
                            inflight[t].genre_id)
           r == add_record_db(DB, q.data)
       IN  IF q.rejected
           THEN /\ UNCHANGED <<tables, Artists, Genres, Stores, Records, recordStores,
                               sqlite_sequence>>
                /\ Finish(t, "api_add_record", 0, 400, None)
           ELSE /\ Bounded(r.db)
                /\ Commit(r.db)
                /\ IF r.exc # "" THEN Finish(t, "api_add_record", 0, 500, None)
                   ELSE Finish(t, "api_add_record", 0, 201, r.ret)

\* The records posted while records are deleted.
ConcurrentPayloads ==
    {BaseRecord,
     [BaseRecord EXCEPT !.artist_name = Str(<<"a">>)],
     [BaseRecord EXCEPT !.artist_name = Str(<<"a">>), !.genre = Str(<<"g">>)],
     [BaseRecord EXCEPT !.year = Num(1799)]}

\* POST /api/records and DELETE /api/records/<rid> served by two threads.
NextConcurrent ==
    \/ InitDb
    \/ \E t \in Threads, rid \in Ids : BeginDeleteRecord(t, rid)
    \/ \E t \in Threads : CountRecordsOfArtist(t)
    \/ \E t \in Threads : DeleteArtistRow(t)
    \/ \E t \in Threads, p \in ConcurrentPayloads : BeginAddRecord(t, p)
    \/ \E t \in Threads : AddRecordGenre(t)
    \/ \E t \in Threads : AddRecordInsert(t)

SpecConcurrent == Init /\ [][NextConcurrent]_vars

\* Record r names an artist no row of Artists has.
DanglingArtist(r) ==
    /\ ~IsNone(r.artist_id)
    /\ \A a \in Artists : Num(a.artist_id) # r.artist_id

\* C14: the delete of a record, the count of its artist's records and the
\* delete of the artist are separate steps: a thread that has counted no
\* record deletes the artist row without looking again, whatever records
\* have come to name the artist since, and keeps those records.
C14_DeleteNotAtomic ==
    \A t \in Threads :
        inflight[t].op = "api_delete_record" /\ inflight[t].pc = "delete_artist" =>
            LET d == delete_artist_row(DB, inflight[t].artist_id)
            IN  /\ d.Records = Records
                /\ \A a \in d.Artists : Num(a.artist_id) # inflight[t].artist_id

\* Both requests are answered, the POST with 201 and the DELETE with 204,
\* and a stored record names an artist that is gone.
C14_Witness ==
    /\ \A t \in Threads : inflight[t] = Idle
    /\ resp.op \in {"api_add_record", "api_delete_record"}
    /\ resp.status \in {201, 204}
    /\ \E r \in Records : DanglingArtist(r)

\* Run without interruption, the steps of DELETE /api/records/<rid> leave
\* what delete_record_db leaves.
C14_StepsCompose ==
    \A rid \in Ids :
        LET b == delete_record_rows(DB, rid)
        IN  delete_record_db(DB, rid).db =
                IF b.exc # "" THEN DB
                ELSE IF Truthy(b.ret) /\ count_records_of_artist(b.db, b.ret) = 0
                     THEN delete_artist_row(b.db, b.ret)
                ELSE b.db

\* ------------------------------------------------------------- store_id
\* Record payloads whose store_id is given and is no integer >= 1.
BadStoreIdPayloads ==
    Vary(BaseRecord, "store_id", {Str(<<"x">>), Num(0), Num(0 - 1), Str(<<"0">>)})

\* Records posted and put with store ids good and bad.
NextStoreId ==
    \/ InitDb
    \/ \E p \in StoreRecordPayloads \cup BadStoreIdPayloads : ApiAddRecord(p)
    \/ \E rid \in Ids, p \in StoreRecordPayloads \cup BadStoreIdPayloads :
          ApiUpdateRecord(rid, p)
    \/ \E rid \in Ids : ApiDeleteRecord(rid)

SpecStoreId == Init /\ [][NextStoreId]_vars

\* C15: POST /api/records and PUT /api/records/<rid> with a store_id that is
\* given but unparsable or below 1 answer 400 and change nothing.
C15_BadStoreIdRefused ==
    Started =>
        \A p \in BadStoreIdPayloads :
            /\ LET h == api_add_record(DB, p)
               IN  h.status = 400 /\ h.db = DB
            /\ \A rid \in Ids :
                  LET h == api_update_record(DB, rid, p)
                  IN  h.status = 400 /\ h.db = DB

\* Values handed to parse_int, and the bounds it is called with.
IntInputs ==
    {None, Num(0 - 1), Num(0), Num(1), Num(1799), Num(1800), Num(2100), Num(2101),
     Str(<<"x">>), Str(<<>>), Str(<<" ", "7", " ">>), Str(<<"-", "1">>),
     Str(<<"1", "8", "0", "0">>), NaN}

IntBounds == {None, Num(1), Num(1800), Num(2100)}

\* parse_int returns None for a value int() refuses and for an integer
\* outside the bounds given, and the integer otherwise.
C15_ParseInt ==
    \A val \in IntInputs, lo \in IntBounds, hi \in IntBounds :
        LET i == IF IsNone(val) THEN Raised ELSE py_int(val)
        IN  parse_int(val, lo, hi) =
                IF i = Raised THEN None
                ELSE IF (~IsNone(lo) /\ i.num < lo.num) \/ (~IsNone(hi) /\ i.num > hi.num)
                     THEN None
                ELSE i

\* ------------------------------------------------- report, no link table
\* Record r satisfies the filters of payload p other than store_id.
SatisfiesButStore(r, p) == Satisfies(r, [p EXCEPT !.store_id = None])

\* The report for payload p is answered, its rows are the records that
\* satisfy the filters other than store_id, and every row has store null.
StoreFilterSkipped(p) ==
    LET rep == api_report_records(DB, p)
    IN  /\ rep.status = 200
        /\ {rep.rows[k].record_id : k \in 1..Len(rep.rows)}
             = {r.record_id : r \in {x \in Records : SatisfiesButStore(x, p)}}
        /\ \A k \in 1..Len(rep.rows) : IsNone(rep.rows[k].store)

\* C16: without the link table a report succeeds for every combination of
\* filters, store_id among them: the store filter is not applied, the
\* others are, and every row has store null.
C16_ReportWithoutLinkTable ==
    Started /\ ~LinkTable => \A p \in ReportPayloads : StoreFilterSkipped(p)

\* The same of the reports that give no store_id.
C16_ReportWithoutStoreFilter ==
    Started /\ ~LinkTable =>
        \A p \in ReportPayloads : IsNone(p.store_id) => StoreFilterSkipped(p)

\* -------------------------------------------------------------- by_artist
\* The sum of the counts of a breakdown.
RECURSIVE SumCounts(_)
SumCounts(entries) ==
    IF entries = <<>> THEN 0 ELSE Head(entries).count + SumCounts(Tail(entries))

\* The breakdown of report rep for payload p: none when the count is 0;
\* else one entry per artist of the records that satisfy the filters (one
\* for the records of no artist), the counts adding up to stats.count, in
\* non-increasing order of count.
Breakdown(rep, p) ==
    LET matching == {r \in Records : Satisfies(r, p)}
        n        == Len(rep.by_artist)
    IN  /\ rep.stats.count = 0 => rep.by_artist = <<>>
        /\ rep.stats.count > 0 =>
              /\ {rep.by_artist[k].artist_id : k \in 1..n}
                    = {artist_key(DB, r) : r \in matching}
              /\ \A j, k \in 1..n :
                    rep.by_artist[j].artist_id = rep.by_artist[k].artist_id => j = k
              /\ SumCounts(rep.by_artist) = rep.stats.count
              /\ \A k \in 1..n - 1 : rep.by_artist[k].count >= rep.by_artist[k + 1].count

\* Each entry of the breakdown counts the rows of the report that carry its
\* artist.
CountsRows(rep) ==
    \A k \in 1..Len(rep.by_artist) :
        rep.by_artist[k].count =
            Cardinality({j \in 1..Len(rep.rows) : rep.rows[j].artist = rep.by_artist[k].name})

\* C17: in every report that is answered by_artist is empty when stats.count
\* is 0 and otherwise has one entry per artist among the matching records,
\* each entry's count the number of rows of that artist, the counts adding
\* up to stats.count, in non-increasing order of count.
C17_ByArtistBreakdown ==
    Started =>
        \A p \in ReportPayloads :
            LET rep == api_report_records(DB, p)
            IN  rep.status = 200 => Breakdown(rep, p) /\ CountsRows(rep)

\* The same without the comparison with the rows.
C17_ByArtistGroups ==
    Started =>
        \A p \in ReportPayloads :
            LET rep == api_report_records(DB, p)
            IN  rep.status = 200 => Breakdown(rep, p)

\* ------------------------------------------------------------ record list
\* Records with links, stores with names, and the list asked for.
NextList ==
    \/ InitDb
    \/ ApiGetRecords
    \/ \E p \in StoreRecordPayloads : ApiAddRecord(p)
    \/ \E rid \in Ids, p \in StoreRecordPayloads : ApiUpdateRecord(rid, p)
    \/ \E rid \in Ids : ApiDeleteRecord(rid)
    \/ \E p \in StorePayloads : ApiCreateStore(p)

SpecList == Init /\ [][NextList]_vars

\* The sequences that hold each element of set S once.
RECURSIVE Orderings(_)
Orderings(S) ==
    IF S = {} THEN {<<>>}
    ELSE UNION {{<<x>> \o o : o \in Orderings(S \ {x})} : x \in S}

\* The names of stores, in the order of ids, joined with ', '.
RECURSIVE Joined(_)
Joined(ids) ==
    IF Len(ids) = 1 THEN store_name_of(DB, Num(ids[1])).str
    ELSE store_name_of(DB, Num(ids[1])).str \o <<",", " ">> \o Joined(Tail(ids))

\* The stores record id is linked to that have a row.
LinkedStores(id) == {sid \in LinksOf(DB, id) : \E x \in Stores : x.store_id = sid}

\* C18: GET /api/records has one entry for every stored record and no
\* other, in strictly descending order of record id, with or without the
\* link table; an entry's store is the names of the record's linked stores
\* joined into one string, and null when it has none.
C18_ListEveryRecordOnce ==
    Started =>
        LET rows == api_get_records(DB)
        IN  /\ Len(rows) = Cardinality(Records)
            /\ {rows[k].record_id : k \in 1..Len(rows)} = {r.record_id : r \in Records}
            /\ \A k \in 1..Len(rows) - 1 : rows[k].record_id > rows[k + 1].record_id
            /\ \A k \in 1..Len(rows) :
                  LET sids == LinkedStores(rows[k].record_id)
                  IN  IF sids = {} THEN IsNone(rows[k].store)
                      ELSE /\ IsStr(rows[k].store)
                           /\ rows[k].store.str \in {Joined(o) : o \in Orderings(sids)}

\* The list was asked for while a record has two links to two stores that
\* exist, and another record has none.
C18_Witness ==
    /\ resp.op = "api_get_records" /\ resp.status = 200
    /\ \E r \in Records : Cardinality(LinkedStores(r.record_id)) = 2
    /\ \E r \in Records : LinksOf(DB, r.record_id) = {}

\* ------------------------------------------------------------------ dates
DateShort == Str(<<"2", "0", "2", "0", "-", "1", "-", "1">>)
DateSlashes == Str(<<"2", "0", "2", "0", "/", "0", "1", "/", "0", "1">>)
DateNoSuchDay == Str(<<"2", "0", "2", "0", "-", "0", "2", "-", "3", "0">>)
DateSeptember == Str(<<"2", "0", "2", "0", "-", "9", "-", "1">>)
DateOctober == Str(<<"2", "0", "2", "0", "-", "1", "0", "-", "0", "1">>)
DateYear2 == Str(<<"2", "0", "-", "0", "1", "-", "0", "1">>)

\* Date values sent as purchase_date and as report bounds.
DateInputs ==
    {None, Str(<<>>), Date1, Date2, DateShort, DateSlashes, DateNoSuchDay,
     DateSeptember, DateOctober, DateYear2}

\* Records posted with these dates, and reports bounded by them.
NextDates ==
    \/ InitDb
    \/ \E val \in DateInputs : ApiAddRecord([BaseRecord EXCEPT !.purchase_date = val])
    \/ \E rid \in Ids : ApiDeleteRecord(rid)
    \/ \E val \in DateInputs :
          ApiReportRecords([start_date |-> val, end_date |-> None, artist_id |-> None,
                            genre_id |-> None, store_id |-> None])
    \/ \E val \in DateInputs :
          ApiReportRecords([start_date |-> None, end_date |-> val, artist_id |-> None,
                            genre_id |-> None, store_id |-> None])

SpecDates == Init /\ [][NextDates]_vars

\* val is a string of the form YYYY-MM-DD: ten characters, digits but for
\* the two dashes, a month 01..12 and a day the month has.
ExactDate(val) ==
    /\ IsStr(val)
    /\ Len(val.str) = 10
    /\ \A i \in {1, 2, 3, 4, 6, 7, 9, 10} : IsDigit(val.str[i])
    /\ val.str[5] = "-" /\ val.str[8] = "-"
    /\ LET y == digits_value(SubSeq(val.str, 1, 4))
           m == digits_value(SubSeq(val.str, 6, 7))
           d == digits_value(SubSeq(val.str, 9, 10))
       IN  y >= 1 /\ m >= 1 /\ m <= 12 /\ d >= 1 /\ d <= days_in_month(y, m)

\* C19: a date is kept only in the exact form YYYY-MM-DD and is absent
\* otherwise: the purchase_date a POST stores, and the start_date and
\* end_date a report filters by, are the value sent when it has that form
\* and null when it has not.
C19_DatesExactForm ==
    Started =>
        \A val \in DateInputs :
            LET kept == IF ExactDate(val) THEN val ELSE None
                h    == api_add_record(DB, [BaseRecord EXCEPT !.purchase_date = val])
                f    == report_filters([start_date |-> val, end_date |-> val])
            IN  /\ h.status = 201 =>
                      \A r \in h.db.Records \ Records : r.purchase_date = kept
                /\ f.start_date = kept
                /\ f.end_date = kept

\* The same of the values that have the exact form or are far from it.
C19_DatesExactOrRefused ==
    Started =>
        \A val \in DateInputs \ {DateShort, DateSeptember} :
            LET kept == IF ExactDate(val) THEN val ELSE None
                h    == api_add_record(DB, [BaseRecord EXCEPT !.purchase_date = val])
            IN  h.status = 201 =>
                    \A r \in h.db.Records \ Records : r.purchase_date = kept

\* Stored purchase dates compare as strings the way they compare as dates.
C19_StringOrderIsDateOrder ==
    \A r \in Records :
        r.purchase_date = DateSeptember =>
            ~(str_le(DateOctober.str, r.purchase_date.str))

\* ------------------------------------------------------ find-or-create names
\* Names with no character but blanks, or none at all.
BlankNames == {None, Str(<<>>), Str(<<" ">>)}

\* Names that differ in letter case only, one of them padded.
CasedNames == {Str(<<"a">>), Str(<<"A">>), Str(<<" ", "a", " ">>)}

\* Find-or-create called with names blank and not.
NextNames ==
    \/ InitDb
    \/ \E name \in BlankNames \cup CasedNames : FindOrCreateArtist(name, None)
    \/ \E name \in BlankNames \cup CasedNames : FindOrCreateGenre(name)
    \/ \E name \in BlankNames \cup CasedNames : FindOrCreateStore(name, None, None)

SpecNames == Init /\ [][NextNames]_vars

\* The call returned None, raised nothing and left the database as it was.
NoOp(r) == r.exc = "" /\ IsNone(r.ret) /\ r.db = DB

\* The call returned the id of the one row of `rows` (rows [id, name] of the
\* table after the call) that has the trimmed name, and inserted that row
\* only when `before` had none of the name.
FoundOrCreated(r, name, rows, before) ==
    /\ r.exc = "" /\ IsNum(r.ret)
    /\ \E x \in rows : Num(x.id) = r.ret /\ x.name = Str(strip(name.str))
    /\ IF \E x \in before : x.name = Str(strip(name.str))
       THEN r.db = DB
       ELSE Cardinality(rows) = Cardinality(before) + 1

\* The id and name columns of the three tables of database d.
ArtistNames(d) == {[id |-> a.artist_id, name |-> a.name] : a \in d.Artists}
GenreNames(d) == {[id |-> g.genre_id, name |-> g.name] : g \in d.Genres}
StoreNames(d) == {[id |-> x.store_id, name |-> x.name] : x \in d.Stores}

\* Names got by trimming are matched exactly, letter case included.
CaseSensitive ==
    \A n, m \in CasedNames :
        LET a1 == find_or_create_artist(DB, n, None)
            a2 == find_or_create_artist(a1.db, m, None)
            s1 == find_or_create_store(DB, n, None, None)
            s2 == find_or_create_store(s1.db, m, None, None)
        IN  /\ FoundOrCreated(a1, n, ArtistNames(a1.db), ArtistNames(DB))
            /\ FoundOrCreated(s1, n, StoreNames(s1.db), StoreNames(DB))
            /\ (a1.ret = a2.ret) = (strip(n.str) = strip(m.str))
            /\ (s1.ret = s2.ret) = (strip(n.str) = strip(m.str))

\* The same of genres.
CaseSensitiveGenres ==
    \A n, m \in CasedNames :
        LET g1 == find_or_create_genre(DB, n)
            g2 == find_or_create_genre(g1.db, m)
        IN  /\ FoundOrCreated(g1, n, GenreNames(g1.db), GenreNames(DB))
            /\ (g1.ret = g2.ret) = (strip(n.str) = strip(m.str))

\* C20: find-or-create for artist, genre and store with a name that is
\* null, empty or blank returns None, raises nothing and changes nothing;
\* with any other name it matches the trimmed name exactly, so that names
\* differing in letter case get rows and ids of their own.
C20_FindOrCreateNames ==
    Started =>
        /\ \A name \in BlankNames :
              /\ NoOp(find_or_create_artist(DB, name, None))
              /\ NoOp(find_or_create_genre(DB, name))
              /\ NoOp(find_or_create_store(DB, name, None, None))
        /\ CaseSensitive
        /\ CaseSensitiveGenres

\* The same but for the genre of a null name.
C20_FindOrCreateNamesButNullGenre ==
    Started =>
        /\ \A name \in BlankNames :
              /\ NoOp(find_or_create_artist(DB, name, None))
              /\ ~IsNone(name) => NoOp(find_or_create_genre(DB, name))
              /\ NoOp(find_or_create_store(DB, name, None, None))
        /\ CaseSensitive
        /\ CaseSensitiveGenres

\* ------------------------------------------------------------ text fields
\* n times the character c.
Repeat(c, n) == [i \in 1..n |-> c]

\* Two texts of more than max_len characters: in the first the character at
\* max_len is a space.
LongSpaced == Str(Repeat("a", max_len - 1) \o <<" ", "b">>)
Long       == Str(Repeat("a", max_len + 1))

\* What the text dialogs send.
TextRecordPayloads ==
    {BaseRecord}
    \cup Vary(BaseRecord, "title", {Str(<<" ">>), Long})
    \cup Vary(BaseRecord, "artist_name", {LongSpaced})
    \cup Vary(BaseRecord, "genre", {LongSpaced})
    \cup Vary(BaseRecord, "condition", {Str(<<" ", "b", " ">>)})

TextArtistPayloads ==
    {[name |-> n, country |-> Long] : n \in {Str(<<" ">>), LongSpaced}}

TextGenrePayloads == {[name |-> LongSpaced]}

TextStorePayloads ==
    {[name |-> LongSpaced, state |-> Str(<<" ", "b", " ">>), address |-> Long]}

\* The endpoints that store text.
NextText ==
    \/ InitDb
    \/ \E p \in TextRecordPayloads : ApiAddRecord(p)
    \/ \E p \in TextArtistPayloads : ApiCreateArtist(p)
    \/ \E aid \in Ids, p \in TextArtistPayloads : ApiUpdateArtist(aid, p)
    \/ \E p \in TextGenrePayloads : ApiCreateGenre(p)
    \/ \E p \in TextStorePayloads : ApiCreateStore(p)
    \/ \E sid \in Ids, p \in TextStorePayloads : ApiUpdateStore(sid, p)

SpecText == Init /\ [][NextText]_vars

\* The input without its leading and trailing whitespace, cut to 255
\* characters; null when nothing is left or the field is missing.
TrimmedCut(v) ==
    LET s == strip(IF IsStr(v) THEN v.str ELSE <<>>)
    IN  IF s = <<>> THEN None
        ELSE Str(SubSeq(s, 1, IF Len(s) < 255 THEN Len(s) ELSE 255))

\* A stored text is null, or has between 1 and 255 characters.
TextBounded(v) == IsNone(v) \/ (IsStr(v) /\ Len(v.str) >= 1 /\ Len(v.str) <= 255)

\* Every text column of database d.
StoredTexts(d) ==
    {r.title : r \in d.Records} \cup {r.condition : r \in d.Records}
    \cup {a.name : a \in d.Artists} \cup {a.country : a \in d.Artists}
    \cup {g.name : g \in d.Genres}
    \cup {x.name : x \in d.Stores} \cup {x.state : x \in d.Stores}
    \cup {x.address : x \in d.Stores}

\* The record rid of database d holds the texts of payload p; name(v) is
\* what a name v is stored as (TRUE: trimmed and cut; FALSE: trimmed again
\* after the cut).
RecordTexts(d, rid, p, exact) ==
    \E r \in d.Records :
        /\ r.record_id = rid
        /\ r.title = TrimmedCut(p.title)
        /\ r.condition = TrimmedCut(p.condition)
        /\ artist_name_of(d, r.artist_id) =
              IF exact THEN TrimmedCut(p.artist_name)
              ELSE TrimmedCut(TrimmedCut(p.artist_name))
        /\ genre_name_of(d, r.genre_id) =
              IF exact THEN TrimmedCut(p.genre) ELSE TrimmedCut(TrimmedCut(p.genre))

\* The texts the record endpoints store.
RecordTextsStored(exact) ==
    /\ \A p \in TextRecordPayloads :
          LET h == api_add_record(DB, p)
          IN  h.status = 201 => RecordTexts(h.db, h.json.num, p, exact)
    /\ \A rid \in Ids, p \in TextRecordPayloads :
          LET h == api_update_record(DB, rid, p)
          IN  h.status = 204 /\ (\E r \in Records : r.record_id = rid)
                  => RecordTexts(h.db, rid, p, exact)

\* The texts the POST endpoints of the entities store in a row they create.
CreatedTextsStored(exact) ==
    /\ \A p \in TextArtistPayloads :
          LET h == api_create_artist(DB, p)
          IN  h.status = 201 /\ h.db # DB =>
                \E a \in h.db.Artists :
                    /\ a.artist_id = h.json.num
                    /\ a.name = IF exact THEN TrimmedCut(p.name)
                                ELSE TrimmedCut(TrimmedCut(p.name))
                    /\ a.country = TrimmedCut(p.country)
    /\ \A p \in TextGenrePayloads :
          LET h == api_create_genre(DB, p)
          IN  h.status = 201 /\ h.db # DB =>
                \E g \in h.db.Genres :
                    /\ g.genre_id = h.json.num
                    /\ g.name = IF exact THEN TrimmedCut(p.name)
                                ELSE TrimmedCut(TrimmedCut(p.name))
    /\ \A p \in TextStorePayloads :
          LET h == api_create_store(DB, p)
          IN  h.status = 201 /\ h.db # DB =>
                \E x \in h.db.Stores :
                    /\ x.store_id = h.json.num
                    /\ x.name = IF exact THEN TrimmedCut(p.name)
                                ELSE TrimmedCut(TrimmedCut(p.name))
                    /\ x.state = TrimmedCut(p.state)
                    /\ x.address = TrimmedCut(p.address)

\* The texts the PUT endpoints of the entities store in the row they update.
UpdatedTextsStored ==
    /\ \A aid \in Ids, p \in TextArtistPayloads :
          LET h == api_update_artist(DB, aid, p)
          IN  h.status = 204 =>
                \A a \in h.db.Artists :
                    a.artist_id = aid =>
                        a.name = TrimmedCut(p.name) /\ a.country = TrimmedCut(p.country)
    /\ \A gid \in Ids, p \in TextGenrePayloads :
          LET h == api_update_genre(DB, gid, p)
          IN  h.status = 204 =>
                \A g \in h.db.Genres : g.genre_id = gid => g.name = TrimmedCut(p.name)
    /\ \A sid \in Ids, p \in TextStorePayloads :
          LET h == api_update_store(DB, sid, p)
          IN  h.status = 204 =>
                \A x \in h.db.Stores :
                    x.store_id = sid =>
                        /\ x.name = TrimmedCut(p.name)
                        /\ x.state = TrimmedCut(p.state)
                        /\ x.address = TrimmedCut(p.address)

\* C21: every text field the facade accepts is stored as the input trimmed
\* and then cut to 255 characters, or as null when nothing is left or the
\* field is missing; no stored text is empty or longer than 255 characters.
C21_TextStoredTrimmedCut ==
    Started =>
        /\ RecordTextsStored(TRUE)
        /\ CreatedTextsStored(TRUE)
        /\ UpdatedTextsStored
        /\ \A v \in StoredTexts(DB) : TextBounded(v)

\* What does hold: titles, conditions, countries, states, addresses and the
\* names a PUT stores are trimmed and cut; the name of an artist, genre or
\* store that find-or-create inserts is trimmed once more after the cut; no
\* stored text is empty or longer than 255 characters.
C21_NamesTrimmedAgain ==
    Started =>
        /\ RecordTextsStored(FALSE)
        /\ CreatedTextsStored(FALSE)
        /\ UpdatedTextsStored
        /\ \A v \in StoredTexts(DB) : TextBounded(v)

\* -------------------------------------------------------- rejected requests
\* Record payloads that name an artist and a genre and are, or are not,
\* valid in their title, year and price.
RejectedPayloads ==
    {[BaseRecord EXCEPT !.title = t, !.artist_name = a, !.genre = g, !.year = y,
                        !.price = p] :
        t \in {Str(<<"a">>), Str(<<" ">>)},
        a \in {None, Str(<<"b">>)},
        g \in {None, Str(<<"g">>)},
        y \in {Num(1800), Num(1799)},
        p \in {Num(0), Num(0 - 1)}}

\* POST, PUT and DELETE of records with such payloads.
NextRejected ==
    \/ InitDb
    \/ \E p \in RejectedPayloads : ApiAddRecord(p)
    \/ \E rid \in Ids, p \in RejectedPayloads : ApiUpdateRecord(rid, p)
    \/ \E rid \in Ids : ApiDeleteRecord(rid)

SpecRejected == Init /\ [][NextRejected]_vars

\* The replies of POST /api/records and PUT /api/records/<rid> to payload p.
RecordReplies(p) ==
    {api_add_record(DB, p)} \cup {api_update_record(DB, rid, p) : rid \in Ids}

\* C22: a POST /api/records or PUT /api/records/<rid> answered 400 (title
\* missing, year or price invalid) leaves every table as it was: no Artists
\* row and no Genres row is created for the names of the rejected payload.
C22_RejectedLeavesTablesUnchanged ==
    Started =>
        \A p \in RejectedPayloads :
            \A h \in RecordReplies(p) : h.status = 400 => h.db = DB

\* What does hold: a request rejected for its title leaves every table as
\* it was; one rejected for its year or price leaves Records, Stores and
\* the links as they were, and has created the artist and the genre it
\* names when they were not there.
C22_RejectedAfterFindOrCreate ==
    Started =>
        \A p \in RejectedPayloads :
            \A h \in RecordReplies(p) :
                h.status = 400 =>
                    /\ h.db.Records = Records
                    /\ h.db.Stores = Stores
                    /\ h.db.recordStores = recordStores
                    /\ ~Truthy(sanitize_text(p.title)) => h.db = DB
                    /\ Truthy(sanitize_text(p.title)) =>
                          /\ Artists \subseteq h.db.Artists
                          /\ Genres \subseteq h.db.Genres
                          /\ Truthy(p.artist_name) =>
                                \E a \in h.db.Artists : a.name = p.artist_name
                          /\ Truthy(p.genre) =>
                                \E g \in h.db.Genres : g.name = p.genre

\* A rejected request has left an artist that no record refers to, in a
\* database that never held a record.
C22_OrphanOfRejected ==
    /\ resp.status = 400
    /\ sqlite_sequence["Records"] = 0
    /\ Artists # {}

\* --------------------------------------------------------------- references
\* Record payloads that name an artist, a genre, both or neither.
ReferencePayloads ==
    {BaseRecord,
     [BaseRecord EXCEPT !.artist_name = Str(<<"a">>), !.genre = Str(<<"g">>)],
     [BaseRecord EXCEPT !.artist_name = Str(<<"b">>)],
     [BaseRecord EXCEPT !.genre = Str(<<"h">>)]}

\* The requests that give a record an artist or a genre and those that
\* remove records, artists and genres, one at a time.
NextReferences ==
    \/ InitDb
    \/ \E p \in ReferencePayloads : ApiAddRecord(p)
    \/ \E rid \in Ids, p \in ReferencePayloads : ApiUpdateRecord(rid, p)
    \/ \E rid \in Ids : ApiDeleteRecord(rid)
    \/ \E aid \in Ids, p \in {[name |-> Str(<<"b">>)]} : ApiUpdateArtist(aid, p)
    \/ \E aid \in Ids : ApiDeleteArtist(aid)
    \/ \E gid \in Ids : ApiDeleteGenre(gid)

SpecReferences == Init /\ [][NextReferences]_vars

\* C23: with the link table present and one request at a time, the artist_id
\* of every record is null or the id of an Artists row, and its genre_id is
\* null or the id of a Genres row.
C23_ReferencesResolve ==
    LinkTable =>
        \A r \in Records :
            /\ IsNone(r.artist_id) \/ \E a \in Artists : Num(a.artist_id) = r.artist_id
            /\ IsNone(r.genre_id) \/ \E g \in Genres : Num(g.genre_id) = r.genre_id

\* The last record of artist 1 was deleted and the artist with it, while a
\* record of artist 2 and its genre stay.
C23_Witness ==
    /\ LinkTable
    /\ resp.op = "api_delete_record" /\ resp.status = 204
    /\ {a.artist_id : a \in Artists} = {2}
    /\ \E r \in Records : r.artist_id = Num(2) /\ ~IsNone(r.genre_id)

\* -------------------------------------------------------------------- links
\* C24: with the link table present every link row names a Records row and
\* a Stores row: a record created or updated with a store_id that names no
\* store, and an update of a record id that names no record, add no link.
C24_LinksResolve ==
    LinkTable =>
        \A l \in recordStores :
            /\ \E r \in Records : r.record_id = l.record_id
            /\ \E x \in Stores : x.store_id = l.store_id

\* What does hold: the link is written for the ids as they come, whether or
\* not a Stores row or a Records row has them.
C24_LinkWrittenUnchecked ==
    Started /\ LinkTable =>
        \A p \in StoreRecordPayloads :
            Truthy(p.store_id) =>
                /\ LET h == api_add_record(DB, p)
                   IN  h.status = 201 /\
                       [record_id |-> h.json.num, store_id |-> p.store_id.num]
                           \in h.db.recordStores
                /\ \A rid \in Ids :
                      LET h == api_update_record(DB, rid, p)
                      IN  h.status = 204 /\
                          [record_id |-> rid, store_id |-> p.store_id.num]
                              \in h.db.recordStores

\* A report asked with no filter.
NoFilters ==
    [start_date |-> None, end_date |-> None, artist_id |-> None, genre_id |-> None,
     store_id |-> None]

\* The record ids of the rows of a report, in their order.
RowIds(rep) == [k \in 1..Len(rep.rows) |-> rep.rows[k].record_id]

\* Sequence s has no element twice.
NoRepeat(s) == \A i, j \in 1..Len(s) : s[i] = s[j] => i = j

\* C25: with the link table present every record has at most one store
\* link, so the rows of the report, whose query joins the link table, have
\* no record twice.
C25_AtMostOneLink ==
    Started /\ LinkTable =>
        /\ \A r \in Records : Cardinality(LinksOf(DB, r.record_id)) <= 1
        /\ NoRepeat(RowIds(api_report_records(DB, NoFilters)))

\* What does hold: a PUT leaves its record id at most one link, and a POST
\* gives the new record at most one link unless a link was waiting for its
\* id; the report has a record as many times as it has links, once when it
\* has none.
C25_OneLinkPerWrite ==
    Started /\ LinkTable =>
        /\ \A rid \in Ids, p \in StoreRecordPayloads :
              LET h == api_update_record(DB, rid, p)
              IN  h.status = 204 /\ Cardinality(LinksOf(h.db, rid)) <= 1
        /\ \A p \in StoreRecordPayloads :
              LET h == api_add_record(DB, p)
              IN  LinksOf(DB, h.json.num) = {} =>
                      Cardinality(LinksOf(h.db, h.json.num)) <= 1
        /\ LET ids == RowIds(api_report_records(DB, NoFilters))
           IN  \A r \in Records :
                   Cardinality({k \in 1..Len(ids) : ids[k] = r.record_id}) =
                       IF LinksOf(DB, r.record_id) = {} THEN 1
                       ELSE Cardinality(LinksOf(DB, r.record_id))

\* ------------------------------------------------- concurrent find-or-create
\* find_or_create_artist, find_or_create_genre and find_or_create_store
\* statement by statement: the SELECT of the id by name, then the INSERT and
\* its commit.  t is the table; country, state and address are not given.

\* The INTEGER PRIMARY KEY AUTOINCREMENT column of each table.
IdColumn ==
    [Artists |-> "artist_id", Genres |-> "genre_id", Stores |-> "store_id",
     Records |-> "record_id"]

CreateOp ==
    [Artists |-> "api_create_artist", Genres |-> "api_create_genre",
     Stores |-> "api_create_store"]

\* SELECT <id> FROM <t> WHERE name = ?, and fetchone().
select_by_name(d, t, name) ==
    fetchone({x[IdColumn[t]] : x \in {y \in d[t] : y.name = name}})

\* The row of an INSERT of a name alone.
named_row(t, id, name) ==
    CASE t = "Artists" -> [artist_id |-> id, name |-> name, country |-> None]
      [] t = "Genres"  -> [genre_id |-> id, name |-> name]
      [] t = "Stores"  -> [store_id |-> id, name |-> name, state |-> None,
                           address |-> None]

\* INSERT INTO <t> (name, ...) and conn.commit().  Artists.name and
\* Genres.name are UNIQUE: the INSERT of a name a row has raises
\* IntegrityError; Stores.name is not.
insert_name(d, t, name) ==
    LET id == lastrowid(d, t)
    IN  IF t # "Stores" /\ \E x \in d[t] : x.name = name
        THEN Raise(d, "IntegrityError")
        ELSE Return([d EXCEPT ![t] = @ \cup {named_row(t, id, name)},
                              !.sqlite_sequence[t] = id],
                    Num(id))

\* POST /api/artists, /api/genres or /api/stores arrives at thread th and
\* runs to the SELECT of find-or-create.
BeginCreate(th, t, payload) ==
    /\ Started
    /\ inflight[th] = Idle
    /\ UNCHANGED <<tables, Artists, Genres, Stores, Records, recordStores,
                   sqlite_sequence>>
    /\ LET name == sanitize_text(Get(payload, "name"))
           r    == select_by_name(DB, t, name)
       IN  IF ~Truthy(name) THEN Finish(th, CreateOp[t], 0, 400, None)
           ELSE IF ~IsNone(r) THEN Finish(th, CreateOp[t], 0, 201, r)
           ELSE Continue(th, [Idle EXCEPT !.op = CreateOp[t], !.pc = "insert",
                                          !.payload = name])

\* The thread, having found no row, inserts one.
InsertName(th, t) ==
    /\ inflight[th].op = CreateOp[t] /\ inflight[th].pc = "insert"
    /\ \E r \in {insert_name(DB, t, inflight[th].payload)} :
          /\ Bounded(r.db)
          /\ Commit(r.db)
          /\ IF r.exc # "" THEN Finish(th, CreateOp[t], 0, 500, None)
             ELSE Finish(th, CreateOp[t], 0, 201, r.ret)

NamePayloads == {[name |-> Str(<<"a">>)], [name |-> Str(<<"b">>)], [name |-> Str(<<" ">>)]}

\* The POST endpoints of the entities served by two threads.
NextCreate ==
    \/ InitDb
    \/ \E th \in Threads, t \in DOMAIN CreateOp, p \in NamePayloads : BeginCreate(th, t, p)
    \/ \E th \in Threads, t \in DOMAIN CreateOp : InsertName(th, t)

SpecCreate == Init /\ [][NextCreate]_vars

\* Thread th has looked for its name in table t, found no row, and is to
\* insert one.
Inserting(th, t) == inflight[th].op = CreateOp[t] /\ inflight[th].pc = "insert"

\* The rows of table t of database d that have the name.
RowsNamed(d, t, name) == {x \in d[t] : x.name = name}

\* C26: when two requests call find-or-create with the same new name at the
\* same time, under every interleaving neither call fails, each returns the
\* id of the row of that name, and exactly one row of that name exists
\* afterwards.
C26_ConcurrentFindOrCreate ==
    /\ \A t \in DOMAIN CreateOp :
          /\ resp.op = CreateOp[t] => resp.status # 500
          /\ \A x, y \in DB[t] : x.name = y.name => x = y
    /\ \A th \in Threads, t \in DOMAIN CreateOp :
          Inserting(th, t) =>
              LET r == insert_name(DB, t, inflight[th].payload)
              IN  /\ r.exc = ""
                  /\ \A x \in RowsNamed(r.db, t, inflight[th].payload) :
                        Num(x[IdColumn[t]]) = r.ret

\* What does hold.  Artists and Genres never have two rows of one name, and
\* the INSERT of the thread that comes second raises IntegrityError, a 500;
\* the INSERT into Stores never fails and gives the name a row more.
C26_SecondInsert ==
    /\ \A t \in {"Artists", "Genres"} : \A x, y \in DB[t] : x.name = y.name => x = y
    /\ \A th \in Threads, t \in DOMAIN CreateOp :
          Inserting(th, t) =>
              LET name == inflight[th].payload
                  r    == insert_name(DB, t, name)
              IN  IF t = "Stores"
                  THEN /\ r.exc = ""
                       /\ Cardinality(RowsNamed(r.db, t, name)) =
                             Cardinality(RowsNamed(DB, t, name)) + 1
                  ELSE r.exc = "" <=> RowsNamed(DB, t, name) = {}

\* The two statements, run with nothing between them, are the function.
C26_StepsCompose ==
    \A p \in NamePayloads :
        LET name   == sanitize_text(p.name)
            two(t) == IF ~Truthy(name) THEN Return(DB, None)
                      ELSE IF ~IsNone(select_by_name(DB, t, name))
                           THEN Return(DB, select_by_name(DB, t, name))
                      ELSE insert_name(DB, t, name)
        IN  /\ find_or_create_artist(DB, name, None) = two("Artists")
            /\ ~Truthy(name) \/ find_or_create_genre(DB, name) = two("Genres")
            /\ find_or_create_store(DB, name, None, None) = two("Stores")

\* Both threads were asked for the name "a" of a store: two rows have it.
C26_TwoStores ==
    /\ resp.op = "api_create_store" /\ resp.status = 201
    /\ Cardinality(RowsNamed(DB, "Stores", Str(<<"a">>))) = 2

\* ------------------------------------------------- deletes against a POST
\* POST /api/records statement by statement on one thread while DELETE
\* /api/artists/<aid> and DELETE /api/genres/<gid> are served by another.
NextGuard ==
    \/ InitDb
    \/ \E t \in Threads, p \in ConcurrentPayloads : BeginAddRecord(t, p)
    \/ \E t \in Threads : AddRecordGenre(t)
    \/ \E t \in Threads : AddRecordInsert(t)
    \/ \E aid \in Ids : ApiDeleteArtist(aid)
    \/ \E gid \in Ids : ApiDeleteGenre(gid)

SpecGuard == Init /\ [][NextGuard]_vars

\* The ids table t has given to rows it no longer has.
RemovedIds(t) ==
    {i \in 1..sqlite_sequence[t] : \A x \in DB[t] : x[IdColumn[t]] # i}

\* C27: under every interleaving of DELETE /api/genres/<gid> or DELETE
\* /api/artists/<aid> with a POST /api/records that names the genre or the
\* artist, no record refers to a row the delete endpoint removed.
C27_GuardUnderConcurrency ==
    \A r \in Records :
        /\ \A i \in RemovedIds("Artists") : r.artist_id # Num(i)
        /\ \A i \in RemovedIds("Genres") : r.genre_id # Num(i)

\* What does hold: the delete endpoints remove a row exactly when no stored
\* record refers to it at that moment.  A POST that has its ids from
\* find-or-create and has not yet inserted its record is not counted.
C27_GuardCountsStoredRecords ==
    Started =>
        /\ \A aid \in Ids :
              LET h == api_delete_artist(DB, aid)
              IN  /\ h.status = 204 <=> ~\E r \in Records : r.artist_id = Num(aid)
                  /\ h.status # 204 => h.db = DB
        /\ \A gid \in Ids :
              LET h == api_delete_genre(DB, gid)
              IN  /\ h.status = 204 <=> ~\E r \in Records : r.genre_id = Num(gid)
                  /\ h.status # 204 => h.db = DB

\* A POST answered 201 has stored a record whose genre was deleted while the
\* request was being served.
C27_RecordOfDeletedGenre ==
    /\ resp.op = "api_add_record" /\ resp.status = 201
    /\ \E r \in Records :
          /\ Num(r.record_id) = resp.json
          /\ \E i \in RemovedIds("Genres") : r.genre_id = Num(i)

\* ------------------------------------------------------------ list helpers
\* server.py api_get_genres, api_get_stores: the rows as dicts.
api_get_genres(d) ==
    LET rows == get_genres_db(d)
    IN  [k \in 1..Len(rows) |-> [genre_id |-> rows[k].genre_id, name |-> rows[k].name]]

api_get_stores(d) ==
    LET rows == get_stores_db(d)
    IN  [k \in 1..Len(rows) |->
            [store_id |-> rows[k].store_id, name |-> rows[k].name,
             state |-> rows[k].state, address |-> rows[k].address]]

\* gui_records.py api_get_genres, api_get_stores: the fallback builds the
\* dicts from the rows of get_genres_db and get_stores_db.
gui_api_get_genres(d, up) ==
    LET rows == get_genres_db(d)
    IN  IF up THEN Return(d, api_get_genres(d))
        ELSE Return(d, [k \in 1..Len(rows) |->
                           [genre_id |-> rows[k].genre_id, name |-> rows[k].name]])

gui_api_get_stores(d, up) ==
    LET rows == get_stores_db(d)
    IN  IF up THEN Return(d, api_get_stores(d))
        ELSE Return(d, [k \in 1..Len(rows) |->
                           [store_id |-> rows[k].store_id, name |-> rows[k].name,
                            state |-> rows[k].state, address |-> rows[k].address]])

GuiGetGenres(up) == Gui("gui_api_get_genres", up, gui_api_get_genres(DB, up))

GuiGetStores(up) == Gui("gui_api_get_stores", up, gui_api_get_stores(DB, up))

\* What fills the lists.
ListRecordPayloads ==
    {BaseRecord,
     [BaseRecord EXCEPT !.artist_name = Str(<<"a">>), !.genre = Str(<<"g">>),
                        !.store_id = Num(1)]}

ListArtistPayloads == {[name |-> Str(<<"b">>), country |-> Str(<<"c">>)]}

ListStorePayloads ==
    {[name |-> Str(<<"s">>), state |-> Str(<<"t">>), address |-> None]}

\* The window reads its four lists, the facade answering or not, while
\* records, artists, genres and stores are created.
NextLists ==
    \/ InitDb
    \/ \E p \in ListRecordPayloads : ApiAddRecord(p)
    \/ \E p \in ListArtistPayloads : ApiCreateArtist(p)
    \/ \E p \in {[name |-> Str(<<"h">>)]} : ApiCreateGenre(p)
    \/ \E p \in ListStorePayloads : ApiCreateStore(p)
    \/ \E up \in BOOLEAN : GuiFetchAllRecords(up)
    \/ \E up \in BOOLEAN : GuiGetArtists(up)
    \/ \E up \in BOOLEAN : GuiGetGenres(up)
    \/ \E up \in BOOLEAN : GuiGetStores(up)

SpecLists == Init /\ [][NextLists]_vars

\* C28: each list the window reads (records, artists, genres, stores) has
\* through the fallback the entries it has through the facade, in the same
\* order, with the same fields and values.
C28_FallbackSameAsFacade ==
    Started =>
        /\ gui_api_fetch_all_records(DB, FALSE).ret = gui_api_fetch_all_records(DB, TRUE).ret
        /\ gui_api_get_artists(DB, FALSE).ret = gui_api_get_artists(DB, TRUE).ret
        /\ gui_api_get_genres(DB, FALSE).ret = gui_api_get_genres(DB, TRUE).ret
        /\ gui_api_get_stores(DB, FALSE).ret = gui_api_get_stores(DB, TRUE).ret

\* What does hold: the lists of records, genres and stores are the same;
\* the artists are the same in number, order, id and name, and the entries
\* of the fallback have no country.
C28_FallbackArtistsLackCountry ==
    Started =>
        /\ gui_api_fetch_all_records(DB, FALSE).ret = gui_api_fetch_all_records(DB, TRUE).ret
        /\ gui_api_get_genres(DB, FALSE).ret = gui_api_get_genres(DB, TRUE).ret
        /\ gui_api_get_stores(DB, FALSE).ret = gui_api_get_stores(DB, TRUE).ret
        /\ LET down == gui_api_get_artists(DB, FALSE).ret
               http == gui_api_get_artists(DB, TRUE).ret
           IN  /\ Len(down) = Len(http)
               /\ \A k \in 1..Len(http) :
                     /\ DOMAIN down[k] = {"artist_id", "name"}
                     /\ DOMAIN http[k] = {"artist_id", "name", "country"}
                     /\ down[k].artist_id = http[k].artist_id
                     /\ down[k].name = http[k].name

\* ---------------------------------------------------------------------- ids
IdRecordPayloads ==
    {BaseRecord,
     [BaseRecord EXCEPT !.artist_name = Str(<<"a">>), !.genre = Str(<<"g">>)]}

IdStorePayloads == {[name |-> Str(<<"s">>), state |-> None, address |-> None]}

\* Rows of the four tables are created and deleted.
NextIds ==
    \/ InitDb
    \/ \E p \in IdRecordPayloads : ApiAddRecord(p)
    \/ \E rid \in Ids : ApiDeleteRecord(rid)
    \/ \E p \in {[name |-> Str(<<"a">>)]} : ApiCreateArtist(p)
    \/ \E aid \in Ids : ApiDeleteArtist(aid)
    \/ \E p \in {[name |-> Str(<<"g">>)]} : ApiCreateGenre(p)
    \/ \E gid \in Ids : ApiDeleteGenre(gid)
    \/ \E p \in IdStorePayloads : ApiCreateStore(p)
    \/ \E sid \in Ids : ApiDeleteStore(sid)

SpecIds == Init /\ [][NextIds]_vars

\* The ids of the rows of table t of database d.
IdsOf(d, t) == {x[IdColumn[t]] : x \in d[t]}

\* The replies of the creations and of the deletions to the database as it
\* stands.
Creations ==
    {api_add_record(DB, p) : p \in IdRecordPayloads}
    \cup {api_create_artist(DB, [name |-> Str(<<"a">>)]),
          api_create_genre(DB, [name |-> Str(<<"g">>)])}
    \cup {api_create_store(DB, p) : p \in IdStorePayloads}

Deletions ==
    {api_delete_record(DB, i) : i \in Ids} \cup {api_delete_artist(DB, i) : i \in Ids}
    \cup {api_delete_genre(DB, i) : i \in Ids} \cup {api_delete_store(DB, i) : i \in Ids}

\* C29: ids are never reused.  sqlite_sequence[t] is the largest id table t
\* has ever given, to rows since deleted too: no row has a larger one, no
\* request lowers it, and every id a creation gives to a new row, and
\* returns, is larger.
C29_IdsNeverReused ==
    Started =>
        /\ \A t \in SCHEMA : \A i \in IdsOf(DB, t) : i <= sqlite_sequence[t]
        /\ \A h \in Creations \cup Deletions :
              \A t \in SCHEMA :
                  /\ h.db.sqlite_sequence[t] >= sqlite_sequence[t]
                  /\ \A i \in IdsOf(h.db, t) \ IdsOf(DB, t) :
                        i > sqlite_sequence[t] /\ i <= h.db.sqlite_sequence[t]
        /\ \A p \in IdRecordPayloads :
              LET h == api_add_record(DB, p)
              IN  h.status = 201 =>
                      /\ h.json.num > sqlite_sequence["Records"]
                      /\ h.json.num \in IdsOf(h.db, "Records")
        /\ \A p \in IdStorePayloads :
              LET h == api_create_store(DB, p)
              IN  h.db # DB =>
                      /\ h.json.num > sqlite_sequence["Stores"]
                      /\ h.json.num \in IdsOf(h.db, "Stores")
        /\ LET h == api_create_artist(DB, [name |-> Str(<<"a">>)])
           IN  h.db # DB =>
                   /\ h.json.num > sqlite_sequence["Artists"]
                   /\ h.json.num \in IdsOf(h.db, "Artists")
        /\ LET h == api_create_genre(DB, [name |-> Str(<<"g">>)])
           IN  h.db # DB =>
                   /\ h.json.num > sqlite_sequence["Genres"]
                   /\ h.json.num \in IdsOf(h.db, "Genres")

\* Artist "a" went with its last record and was created again by name, with
\* id 2; record 1 was deleted and the next record is 2.
C29_Witness ==
    /\ resp.op = "api_add_record" /\ resp.status = 201 /\ resp.json = Num(2)
    /\ Artists = {[artist_id |-> 2, name |-> Str(<<"a">>), country |-> None]}
    /\ IdsOf(DB, "Records") = {2}

\* ------------------------------------------------------- missing record id
\* No stored record has the id.
Missing(rid) == \A r \in Records : r.record_id # rid

\* Valid payloads of a PUT: with a store, with an artist and a genre.
MissingPayloads == StoreRecordPayloads \cup ReferencePayloads

\* C30: with the link table present, DELETE /api/records/<rid> and a valid
\* PUT /api/records/<rid> for an id no stored record has leave every table
\* as it was.
C30_MissingRecordNoEffect ==
    Started /\ LinkTable =>
        \A rid \in Ids :
            Missing(rid) =>
                /\ api_delete_record(DB, rid).db = DB
                /\ \A p \in MissingPayloads : api_update_record(DB, rid, p).db = DB

\* What does hold for an id no stored record has.  Both requests answer 204
\* and leave Records and Stores as they were.  The DELETE removes the links
\* that have the id.  The PUT creates the artist and the genre it names when
\* they are not there, removes the links that have the id and, given a
\* store_id, writes a link for the id.
C30_MissingRecordEffects ==
    Started /\ LinkTable =>
        \A rid \in Ids :
            Missing(rid) =>
                /\ LET h == api_delete_record(DB, rid)
                   IN  /\ h.status = 204
                       /\ h.db = [DB EXCEPT !.recordStores =
                                     {l \in @ : l.record_id # rid}]
                /\ \A p \in MissingPayloads :
                      LET h == api_update_record(DB, rid, p)
                          a == IF Truthy(p.artist_name)
                               THEN find_or_create_artist(DB, p.artist_name, None)
                               ELSE Return(DB, None)
                          g == IF Truthy(p.genre)
                               THEN find_or_create_genre(a.db, p.genre)
                               ELSE Return(a.db, None)
                      IN  /\ h.status = 204
                          /\ h.db.Records = Records
                          /\ h.db.Stores = Stores
                          /\ h.db.Artists = a.db.Artists
                          /\ h.db.Genres = g.db.Genres
                          /\ h.db.recordStores =
                                {l \in recordStores : l.record_id # rid}
                                \cup IF Truthy(p.store_id)
                                     THEN {[record_id |-> rid, store_id |-> p.store_id.num]}
                                     ELSE {}

=============================================================================
